---- MODULE Spec2Model ----
(***************************************************************************)
(* Model of the pyRevit section tools of ARCLAB.tab.                       *)
(*                                                                         *)
(* Main subject: create_3_click_section                                    *)
(* ("Section.panel/3 Click.pushbutton/script.py"), the three-pick          *)
(* construction session with its transaction group, inner transactions,    *)
(* temporary overlay curves and exception handler.                         *)
(*                                                                         *)
(* Numbers.  Lengths are integers in units of 10 mm, the internal          *)
(* ("feet") scale of the model: mm_to_ft(mm) = mm / 10.  Every configured  *)
(* length of the script is a multiple of 10 mm.  A length that is a square *)
(* root is never computed: a comparison length < k is decided exactly on   *)
(* the squares, and a quotient n / sqrt(r) is kept as the pair (n, r).     *)
(* cos(t) is exact for t in 0, 15, ..., 90 degrees: cos(t)^2 is            *)
(* (a + b*sqrt(3)) / 4 with integers a and b.  Floating point rounding is  *)
(* not modelled.                                                           *)
(***************************************************************************)
EXTENDS Integers, Sequences, FiniteSets, TLC

(***************************************************************************)
(* Bounds of the model                                                     *)
(***************************************************************************)
\* pick coordinates of the second and third pick range over 0..MaxCoord
MaxCoord == 5
\* pick coordinates of the first pick range over 0..MaxStart
MaxStart == 0
\* coordinates of the points given to the snap function alone: -MaxSnap..MaxSnap
MaxSnap == 3

\* the level collections given to the height lookup alone have 1..MaxLevels levels
MaxLevels == 3

(***************************************************************************)
(* SETTINGS of the script (lines 15-29)                                    *)
(***************************************************************************)
ORTHO_TOLERANCE_DEGREES == 15
BREADCRUMB_SIZE_MM == 300
DEFAULT_HEIGHT_MM == 3000
MIN_SECTION_LENGTH_MM == 50
MIN_DEPTH_MM == 50
DEFAULT_DEPTH_MM == 500

(***************************************************************************)
(* Arithmetic helpers                                                      *)
(***************************************************************************)
Abs(x) == IF x < 0 THEN -x ELSE x

Sq(x) == x * x

\* X > sqrt(3) * Y, exactly, for integers X and Y of either sign
GtSqrt3(X, Y) ==
    IF Y >= 0 THEN X > 0 /\ Sq(X) > 3 * Sq(Y)
              ELSE X >= 0 \/ Sq(X) < 3 * Sq(Y)

\* the coordinate unit of a session, in tenths of a millimetre: 10 mm
SessionGrid == 100

\* mm_to_ft: millimetres to coordinate units
mm_to_ft(mm) == (mm * 10) \div SessionGrid

(***************************************************************************)
(* DB.XYZ: points and vectors                                              *)
(***************************************************************************)
XYZ(x, y, z) == [X |-> x, Y |-> y, Z |-> z]

BasisZ == XYZ(0, 0, 1)

Sub(a, b) == XYZ(a.X - b.X, a.Y - b.Y, a.Z - b.Z)

Neg(a) == XYZ(-a.X, -a.Y, -a.Z)

DotProduct(a, b) == a.X * b.X + a.Y * b.Y + a.Z * b.Z

CrossProduct(a, b) ==
    XYZ(a.Y * b.Z - a.Z * b.Y, a.Z * b.X - a.X * b.Z, a.X * b.Y - a.Y * b.X)

\* the square of XYZ.GetLength()
LengthSq(v) == DotProduct(v, v)

\* GetLength() < k for an integer k >= 0
LengthLess(v, k) == LengthSq(v) < Sq(k)

(***************************************************************************)
(* snap_ortho_with_tolerance (lines 62-88)                                 *)
(***************************************************************************)
Tolerances == {0, 15, 30, 45, 60, 75, 90}

\* cos(t)^2 = (a + b*sqrt(3)) / 4, as <<a, b>>: math.cos(math.radians(t))
CosSq4(t) ==
    CASE t = 0  -> <<4, 0>>
      [] t = 15 -> <<2, 1>>
      [] t = 30 -> <<3, 0>>
      [] t = 45 -> <<2, 0>>
      [] t = 60 -> <<1, 0>>
      [] t = 75 -> <<2, -1>>
      [] t = 90 -> <<0, 0>>

\* mutant: the threshold taken as sin(t) instead of cos(t)
NormExceeds_Sine(c, lenSq, t) ==
    GtSqrt3(4 * Sq(c) - CosSq4(90 - t)[1] * lenSq, CosSq4(90 - t)[2] * lenSq)

\* mutant: the comparison with the threshold reversed
NormExceeds_Reversed(c, lenSq, t) ==
    ~GtSqrt3(4 * Sq(c) - CosSq4(t)[1] * lenSq, CosSq4(t)[2] * lenSq)

\* abs(c / length) > threshold, where threshold = cos(t): both sides are
\* >= 0, so it is c^2 / length^2 > cos(t)^2, i.e.
\* 4*c^2 - a*length^2 > b*sqrt(3)*length^2
NormExceeds(c, lenSq, t) ==
    GtSqrt3(4 * Sq(c) - CosSq4(t)[1] * lenSq, CosSq4(t)[2] * lenSq)

\* mutant: no pair of points is taken as degenerate
IsDegenerate_Never(lenSq, grid) == FALSE

\* length < 0.001 (feet) for coordinates in units of grid tenths of a
\* millimetre: 0.001 ft = 3.048 tenths, so lenSq * grid^2 < 9.290304
IsDegenerate(lenSq, grid) == lenSq * Sq(grid) < 10

\* the function on points whose coordinates are in units of grid tenths of a
\* millimetre; only the test of line 70 depends on the unit
snap_ortho_on_grid(p1, p2, tolerance_degrees, grid) ==
    LET vec == Sub(p2, p1)
        lenSq == LengthSq(vec)
    IN  IF IsDegenerate(lenSq, grid) THEN p2
        ELSE IF NormExceeds(Abs(vec.X), lenSq, tolerance_degrees)
             THEN XYZ(p2.X, p1.Y, p2.Z)
        ELSE IF NormExceeds(Abs(vec.Y), lenSq, tolerance_degrees)
             THEN XYZ(p1.X, p2.Y, p2.Z)
        ELSE p2

\* the function on the points of a session
snap_ortho_with_tolerance(p1, p2, tolerance_degrees) ==
    snap_ortho_on_grid(p1, p2, tolerance_degrees, SessionGrid)

(***************************************************************************)
(* State of one run of create_3_click_section (lines 121-253)              *)
(***************************************************************************)
VARIABLES
    pc,                  \* position in create_3_click_section
    active_view,         \* doc.ActiveView: [ViewType, GenLevel]
    levels,              \* elevations of the DB.Level elements, collector order
    section_types,       \* names of the Section ViewFamilyTypes, collector order
    doc,                 \* the document: [curves, views], uncommitted changes included
    doc0,                \* the document when the tool was invoked
    tg,                  \* status of the TransactionGroup
    tgSnap,              \* the document when the group was started
    tx,                  \* status of t_crumb, t_temp, t_final
    txSnap,              \* the document when the open inner transaction was started
    temp_ids_to_delete,  \* line 136
    p1, p2, p3,          \* the flattened (and snapped) picks
    bbox,                \* the BoundingBoxXYZ built by lines 184-222
    depth_raw,           \* line 198, before the minimum is applied
    prompts,             \* the PickPoint requests made so far
    alerts,              \* the forms.alert calls made so far
    exc,                 \* the exception in flight or caught at line 250
    exit,                \* how the function ended: return, SystemExit, raise
    snapIn, snapOut,     \* argument and result of a lone snap_ortho_with_tolerance call
    callIn, callOut,     \* argument and result of a lone call of the height lookup
    win,                 \* the fields of the slider window (cut_mm, top_thick, bot_thick, slider)
    handler,             \* the fields of the window's IExternalEventHandler
    pending,             \* ext_event.Raise() was called and Execute has not run yet
    sent,                \* the offsets last given to view.SetViewRange
    events               \* the number of user interface events handled so far

vars == <<pc, active_view, levels, section_types, doc, doc0, tg, tgSnap, tx, txSnap,
          temp_ids_to_delete, p1, p2, p3, bbox, depth_raw, prompts, alerts, exc, exit,
          snapIn, snapOut, callIn, callOut, win, handler, pending, sent, events>>

\* the state of the slider tools
uiVars == <<win, handler, pending, sent, events>>

NoWindow == [cut_mm |-> 0, top_thick |-> 0, bot_thick |-> 0, slider |-> 0]

NoHandler == [cut_mm |-> 0, top_offset_mm |-> 0, bot_offset_mm |-> 0, new_offset |-> 0]

NoRange == [top |-> 0, cut |-> 0, bottom |-> 0, depth |-> 0]

\* no slider window is open
NoUi ==
    /\ win = NoWindow
    /\ handler = NoHandler
    /\ pending = FALSE
    /\ sent = NoRange
    /\ events = 0

Coord == 0..MaxCoord

StartCoord == 0..MaxStart

\* the host's exceptions: a cancelled pick, and any other failure of a host call
OperationCanceled == [type |-> "OperationCanceledException", text |-> "Operation canceled by user."]

HostError == [type |-> "HostError", text |-> "The host rejected the call."]

NoException == [type |-> "none", text |-> ""]

\* "Operation canceled" in str(e)  (line 252)
MentionsOperationCanceled(e) == e.text \in {"Operation canceled by user."}

NoPoint == XYZ(0, 0, 0)

\* a quotient n / sqrt(r)
Scalar(n, r) == [n |-> n, r |-> r]

NoBox == [Length |-> Scalar(0, 1), Height |-> 0, Depth |-> Scalar(0, 1),
          Origin2 |-> NoPoint, BasisX |-> NoPoint, BasisY |-> NoPoint,
          BasisZ |-> NoPoint, norm |-> 1]

Alert(text, arg) == [text |-> text, arg |-> arg]

InitSession ==
    /\ pc = "Validate"
    /\ active_view \in [ViewType : {"FloorPlan", "CeilingPlan", "Section"}, GenLevel : 0..2]
    /\ levels = <<0, 300>>
    /\ section_types \in {<<>>, <<"Building Section">>, <<"Building Section", "AL_Section">>}
    /\ doc = [curves |-> {"existing"}, views |-> {}]
    /\ doc0 = doc
    /\ tg = "NotStarted"
    /\ tgSnap = doc
    /\ tx = [t \in {"t_crumb", "t_temp", "t_final"} |-> "NotStarted"]
    /\ txSnap = doc
    /\ temp_ids_to_delete = <<>>
    /\ p1 = NoPoint /\ p2 = NoPoint /\ p3 = NoPoint
    /\ bbox = NoBox
    /\ depth_raw = Scalar(0, 1)
    /\ prompts = <<>>
    /\ alerts = <<>>
    /\ exc = NoException
    /\ exit = "running"

NoSnap == [p1 |-> NoPoint, p2 |-> NoPoint, t |-> 0, grid |-> SessionGrid]

NoCall == [levels |-> <<0>>, current |-> 1]

Init ==
    /\ InitSession
    /\ snapIn = NoSnap
    /\ snapOut = NoPoint
    /\ callIn = NoCall
    /\ callOut = 0
    /\ NoUi

(***************************************************************************)
(* Host primitives                                                         *)
(***************************************************************************)
\* mutant: an exception of the try block is noted and the run goes on to the
\* finalization
Raise_GoesOn(e) == pc' = "FinalStart" /\ exc' = e

\* an exception raised inside the try block of lines 138-248 reaches line 250
Raise(e) == pc' = "Handler" /\ exc' = e

\* forms.alert(..., exitscript=True): the alert, then sys.exit(); SystemExit
\* is no Exception, so the clause of line 250 does not catch it
AlertAndExit(text) ==
    /\ alerts' = Append(alerts, Alert(text, ""))
    /\ exit' = "SystemExit"
    /\ pc' = "End"

OpenTx == {t \in DOMAIN tx : tx[t] = "Started"}

\* Transaction.Start()
StartTx(t) == tx' = [tx EXCEPT ![t] = "Started"] /\ txSnap' = doc

\* Transaction.Commit()
CommitTx(t) == tx' = [tx EXCEPT ![t] = "Committed"]

(***************************************************************************)
(* get_upper_level (lines 37-46) and get_default_section_type (48-60)      *)
(***************************************************************************)
\* sorted(all_levels, key=lambda l: l.Elevation): the level ids (positions in
\* the collector) by ascending elevation, equal elevations in collector order
SortedLevels(lv) ==
    CHOOSE s \in [1..Len(lv) -> 1..Len(lv)] :
        /\ \A i, j \in 1..Len(lv) : i # j => s[i] # s[j]
        /\ \A i, j \in 1..Len(lv) :
              i < j => \/ lv[s[i]] < lv[s[j]]
                       \/ lv[s[i]] = lv[s[j]] /\ s[i] < s[j]

\* the id of the level after current_level in the sorted list, 0 for None
get_upper_level(lv, current_level) ==
    LET sorted_levels == SortedLevels(lv)
        hits == {i \in 1..Len(lv) : sorted_levels[i] = current_level /\ i + 1 <= Len(lv)}
    IN  IF hits = {} THEN 0
        ELSE sorted_levels[(CHOOSE i \in hits : \A k \in hits : i <= k) + 1]

\* the type named AL_Section if there is one, else the first Section type, else None
get_default_section_type(types) ==
    IF \E i \in 1..Len(types) : types[i] = "AL_Section" THEN "AL_Section"
    ELSE IF Len(types) > 0 THEN types[1]
    ELSE "None"

(***************************************************************************)
(* create_3_click_section, step by step                                    *)
(***************************************************************************)
\* mutant: a section view passes the view type check
InvalidViewType_SectionAllowed ==
    active_view.ViewType \notin {"FloorPlan", "CeilingPlan", "Section"}

\* lines 123-129: the two context checks
InvalidViewType == active_view.ViewType \notin {"FloorPlan", "CeilingPlan"}

NoGenLevel == active_view.GenLevel = 0

Validate ==
    /\ pc = "Validate"
    /\ IF InvalidViewType
         THEN AlertAndExit("Please run this tool from a Floor or Ceiling Plan.")
       ELSE IF NoGenLevel
         THEN AlertAndExit("Current view does not have an associated level.")
       ELSE pc' = "StartGroup" /\ UNCHANGED <<alerts, exit>>
    /\ UNCHANGED <<active_view, levels, section_types, doc, doc0, tg, tgSnap, tx, txSnap,
                   temp_ids_to_delete, p1, p2, p3, bbox, depth_raw, prompts, exc,
                   snapIn, snapOut, callIn, callOut, uiVars>>

\* lines 132-136: tg.Start(); temp_ids_to_delete = [].  The try block opens
\* at line 138, so an exception of tg.Start() leaves the function uncaught
StartGroup ==
    /\ pc = "StartGroup"
    /\ \/ /\ tg' = "Started"
          /\ tgSnap' = doc
          /\ temp_ids_to_delete' = <<>>
          /\ pc' = "Pick1"
          /\ exit' = exit
       \/ /\ exit' = "raise"
          /\ pc' = "End"
          /\ UNCHANGED <<tg, tgSnap, temp_ids_to_delete>>
    /\ UNCHANGED <<active_view, levels, section_types, doc, doc0, tx, txSnap,
                   p1, p2, p3, bbox, depth_raw, prompts, alerts, exc,
                   snapIn, snapOut, callIn, callOut, uiVars>>

\* the Z of a picked point: the elevation of the plan's level
PickZ == levels[active_view.GenLevel]

\* lines 140-141: Click 1, flattened to Z = 0
Pick1 ==
    /\ pc = "Pick1"
    /\ prompts' = Append(prompts, "Click 1: Start of Section Line")
    /\ \/ \E x \in StartCoord, y \in StartCoord :
             LET pt_start == XYZ(x, y, PickZ)
             IN  /\ p1' = XYZ(pt_start.X, pt_start.Y, 0)
                 /\ pc' = "CrumbStart"
                 /\ exc' = exc
       \/ \E e \in {OperationCanceled, HostError} : Raise(e) /\ p1' = p1
    /\ UNCHANGED <<active_view, levels, section_types, doc, doc0, tg, tgSnap, tx, txSnap,
                   temp_ids_to_delete, p2, p3, bbox, depth_raw, alerts, exit,
                   snapIn, snapOut, callIn, callOut, uiVars>>

\* lines 145-146: t_crumb = Transaction(...); t_crumb.Start()
CrumbStart ==
    /\ pc = "CrumbStart"
    /\ \/ StartTx("t_crumb") /\ pc' = "CrumbDraw" /\ exc' = exc
       \/ Raise(HostError) /\ UNCHANGED <<tx, txSnap>>
    /\ UNCHANGED <<active_view, levels, section_types, doc, doc0, tg, tgSnap,
                   temp_ids_to_delete, p1, p2, p3, bbox, depth_raw, prompts, alerts,
                   exit, snapIn, snapOut, callIn, callOut, uiVars>>

\* create_breadcrumb_visual (lines 90-117): the curves it leaves in the document
\* and the ids it returns.  Both ids are appended only after both curves were
\* created (lines 109-113); an exception is swallowed (lines 114-115)
create_breadcrumb_visual(outcome) ==
    CASE outcome = "both"        -> [curves |-> {"crumb1", "crumb2"}, ids |-> <<"crumb1", "crumb2">>]
      [] outcome = "first_fails" -> [curves |-> {}, ids |-> <<>>]
      [] outcome = "second_fails" -> [curves |-> {"crumb1"}, ids |-> <<>>]

\* mutant: an exception inside create_breadcrumb_visual reaches line 250
CrumbDraw_Propagates ==
    /\ pc = "CrumbDraw"
    /\ \E outcome \in {"both", "first_fails", "second_fails"} :
          LET r == create_breadcrumb_visual(outcome)
          IN  /\ doc' = [doc EXCEPT !.curves = @ \cup r.curves]
              /\ temp_ids_to_delete' = temp_ids_to_delete \o r.ids
              /\ IF outcome = "both" THEN pc' = "CrumbRegen" /\ exc' = exc
                                     ELSE Raise(HostError)
    /\ UNCHANGED <<active_view, levels, section_types, doc0, tg, tgSnap, tx, txSnap,
                   p1, p2, p3, bbox, depth_raw, prompts, alerts, exit,
                   snapIn, snapOut, callIn, callOut, uiVars>>

\* lines 147-148
CrumbDraw ==
    /\ pc = "CrumbDraw"
    /\ \E outcome \in {"both", "first_fails", "second_fails"} :
          LET r == create_breadcrumb_visual(outcome)
          IN  /\ doc' = [doc EXCEPT !.curves = @ \cup r.curves]
              /\ temp_ids_to_delete' = temp_ids_to_delete \o r.ids
    /\ pc' = "CrumbRegen"
    /\ UNCHANGED <<active_view, levels, section_types, doc0, tg, tgSnap, tx, txSnap,
                   p1, p2, p3, bbox, depth_raw, prompts, alerts, exc, exit,
                   snapIn, snapOut, callIn, callOut, uiVars>>

\* line 149: doc.Regenerate(), outside any inner try
CrumbRegen ==
    /\ pc = "CrumbRegen"
    /\ \/ pc' = "CrumbCommit" /\ exc' = exc
       \/ Raise(HostError)
    /\ UNCHANGED <<active_view, levels, section_types, doc, doc0, tg, tgSnap, tx, txSnap,
                   temp_ids_to_delete, p1, p2, p3, bbox, depth_raw, prompts, alerts,
                   exit, snapIn, snapOut, callIn, callOut, uiVars>>

\* line 150: t_crumb.Commit()
CrumbCommit ==
    /\ pc = "CrumbCommit"
    /\ \/ CommitTx("t_crumb") /\ pc' = "Pick2" /\ exc' = exc
       \/ Raise(HostError) /\ tx' = tx
    /\ UNCHANGED <<active_view, levels, section_types, doc, doc0, tg, tgSnap, txSnap,
                   temp_ids_to_delete, p1, p2, p3, bbox, depth_raw, prompts, alerts,
                   exit, snapIn, snapOut, callIn, callOut, uiVars>>

\* lines 153-157: Click 2, flattened and snapped
Pick2 ==
    /\ pc = "Pick2"
    /\ prompts' = Append(prompts, "Click 2: End of Section Line")
    /\ \/ \E x \in Coord, y \in Coord :
             LET pt_end_raw == XYZ(x, y, PickZ)
                 p2_raw == XYZ(pt_end_raw.X, pt_end_raw.Y, 0)
             IN  /\ p2' = snap_ortho_with_tolerance(p1, p2_raw, ORTHO_TOLERANCE_DEGREES)
                 /\ pc' = "CheckLength"
                 /\ exc' = exc
       \/ \E e \in {OperationCanceled, HostError} : Raise(e) /\ p2' = p2
    /\ UNCHANGED <<active_view, levels, section_types, doc, doc0, tg, tgSnap, tx, txSnap,
                   temp_ids_to_delete, p1, p3, bbox, depth_raw, alerts, exit,
                   snapIn, snapOut, callIn, callOut, uiVars>>

\* line 160
vec_line == Sub(p2, p1)

\* mutant: the comparison reversed
TooShort_Reversed(v) == ~LengthLess(v, mm_to_ft(MIN_SECTION_LENGTH_MM))

\* mutant: <= in place of <
TooShort_Inclusive(v) == LengthSq(v) <= Sq(mm_to_ft(MIN_SECTION_LENGTH_MM))

\* line 161: vec_line.GetLength() < mm_to_ft(MIN_SECTION_LENGTH_MM)
TooShort(v) == LengthLess(v, mm_to_ft(MIN_SECTION_LENGTH_MM))

\* mutant: the group is closed but its changes stay
RollBackGroup_KeepsDocument ==
    /\ tg' = "RolledBack"
    /\ doc' = doc

\* TransactionGroup.RollBack() with every inner transaction closed
RollBackGroup ==
    /\ tg' = "RolledBack"
    /\ doc' = tgSnap

\* lines 159-163: too short: tg.RollBack(), alert, exit
CheckLength ==
    /\ pc = "CheckLength"
    /\ IF TooShort(vec_line)
         THEN /\ RollBackGroup
              /\ AlertAndExit("Section line is too short")
         ELSE /\ pc' = "TempStart"
              /\ UNCHANGED <<tg, doc, alerts, exit>>
    /\ UNCHANGED <<active_view, levels, section_types, doc0, tgSnap, tx, txSnap,
                   temp_ids_to_delete, p1, p2, p3, bbox, depth_raw, prompts, exc,
                   snapIn, snapOut, callIn, callOut, uiVars>>

\* lines 167-168: t_temp = Transaction(...); t_temp.Start()
TempStart ==
    /\ pc = "TempStart"
    /\ \/ StartTx("t_temp") /\ pc' = "TempDraw" /\ exc' = exc
       \/ Raise(HostError) /\ UNCHANGED <<tx, txSnap>>
    /\ UNCHANGED <<active_view, levels, section_types, doc, doc0, tg, tgSnap,
                   temp_ids_to_delete, p1, p2, p3, bbox, depth_raw, prompts, alerts,
                   exit, snapIn, snapOut, callIn, callOut, uiVars>>

\* lines 169-175: the connector line; its id is appended as soon as the curve
\* exists (line 172), an exception is swallowed whether it comes before the
\* curve exists (lines 170-171) or after (Regenerate, line 173)
TempDraw ==
    /\ pc = "TempDraw"
    /\ \E outcome \in {"drawn", "create_fails", "regenerate_fails"} :
          IF outcome = "create_fails"
            THEN UNCHANGED <<doc, temp_ids_to_delete>>
            ELSE /\ doc' = [doc EXCEPT !.curves = @ \cup {"connector"}]
                 /\ temp_ids_to_delete' = Append(temp_ids_to_delete, "connector")
    /\ pc' = "TempCommit"
    /\ UNCHANGED <<active_view, levels, section_types, doc0, tg, tgSnap, tx, txSnap,
                   p1, p2, p3, bbox, depth_raw, prompts, alerts, exc, exit,
                   snapIn, snapOut, callIn, callOut, uiVars>>

\* line 176: t_temp.Commit()
TempCommit ==
    /\ pc = "TempCommit"
    /\ \/ CommitTx("t_temp") /\ pc' = "Pick3" /\ exc' = exc
       \/ Raise(HostError) /\ tx' = tx
    /\ UNCHANGED <<active_view, levels, section_types, doc, doc0, tg, tgSnap, txSnap,
                   temp_ids_to_delete, p1, p2, p3, bbox, depth_raw, prompts, alerts,
                   exit, snapIn, snapOut, callIn, callOut, uiVars>>

\* lines 179-180: Click 3, flattened
Pick3 ==
    /\ pc = "Pick3"
    /\ prompts' = Append(prompts, "Click 3: Define Section Depth/Direction")
    /\ \/ \E x \in Coord, y \in Coord :
             LET pt_depth == XYZ(x, y, PickZ)
             IN  /\ p3' = XYZ(pt_depth.X, pt_depth.Y, 0)
                 /\ pc' = "Calc"
                 /\ exc' = exc
       \/ \E e \in {OperationCanceled, HostError} : Raise(e) /\ p3' = p3
    /\ UNCHANGED <<active_view, levels, section_types, doc, doc0, tg, tgSnap, tx, txSnap,
                   temp_ids_to_delete, p1, p2, bbox, depth_raw, alerts, exit,
                   snapIn, snapOut, callIn, callOut, uiVars>>

\* s < k for a quotient s = n / sqrt(r) with n >= 0 and an integer k >= 0
ScalarLess(s, k) == Sq(s.n) < Sq(k) * s.r

\* mutant: the view direction is never flipped towards the third pick
ViewDirNum_NeverFlips(v, vec_to_depth) == CrossProduct(v, BasisZ)

\* lines 188-195: the numerator of view_dir; view_dir is this over sqrt(|v|^2)
ViewDirNum(v, vec_to_depth) ==
    LET ortho_dir == CrossProduct(v, BasisZ)
    IN  IF DotProduct(ortho_dir, vec_to_depth) < 0 THEN Neg(ortho_dir) ELSE ortho_dir

\* line 198: abs(view_dir.DotProduct(vec_to_depth))
DepthDist(v, vec_to_depth) ==
    Scalar(Abs(DotProduct(ViewDirNum(v, vec_to_depth), vec_to_depth)), LengthSq(v))

\* mutant: below the minimum the depth is clamped to the minimum
FinalDepth_ClampsToMinimum(raw) ==
    IF ScalarLess(raw, mm_to_ft(MIN_DEPTH_MM))
      THEN Scalar(mm_to_ft(MIN_DEPTH_MM), 1)
      ELSE raw

\* lines 199-201: below the minimum the default depth is used
FinalDepth(raw) ==
    IF ScalarLess(raw, mm_to_ft(MIN_DEPTH_MM))
      THEN Scalar(mm_to_ft(DEFAULT_DEPTH_MM), 1)
      ELSE raw

\* lines 204-208
Height(lv, curr_level) ==
    LET upper_level == get_upper_level(lv, curr_level)
    IN  IF upper_level # 0 THEN lv[upper_level] - lv[curr_level]
        ELSE mm_to_ft(DEFAULT_HEIGHT_MM)

\* mutant: the origin of the transform is the start point
Midpoint2_StartPoint(a, v) == XYZ(2 * a.X, 2 * a.Y, 2 * a.Z)

\* line 185: midpoint = p1 + (vec_line * 0.5), as twice the midpoint
Midpoint2(a, v) == XYZ(2 * a.X + v.X, 2 * a.Y + v.Y, 2 * a.Z + v.Z)

\* mutant: BasisX = BasisZ x BasisY, a left-handed frame
TransformBasisX_Swapped(view_dir) == CrossProduct(view_dir, BasisZ)

\* line 221: t.BasisX = t.BasisY.CrossProduct(t.BasisZ), with BasisY = XYZ.BasisZ
\* and BasisZ = view_dir; the numerator, over sqrt(|v|^2) like view_dir
TransformBasisX(view_dir) == CrossProduct(BasisZ, view_dir)

\* lines 184-222: the bounding box and its transform.  Length and Depth are
\* quotients n / sqrt(r); Min = (-Length/2, 0, 0), Max = (Length/2, Height, Depth);
\* Origin2 is twice the midpoint; the basis vectors BasisX and BasisZ are the
\* integer vectors given, divided by sqrt(norm)
BuildBox(a, b, c, lv, curr_level) ==
    LET v == Sub(b, a)
        vec_to_depth == Sub(c, a)
        view_dir == ViewDirNum(v, vec_to_depth)
    IN  [Length |-> Scalar(LengthSq(v), LengthSq(v)),
         Height |-> Height(lv, curr_level),
         Depth |-> FinalDepth(DepthDist(v, vec_to_depth)),
         Origin2 |-> Midpoint2(a, v),
         BasisX |-> TransformBasisX(view_dir),
         BasisY |-> BasisZ,
         BasisZ |-> view_dir,
         norm |-> LengthSq(v)]

\* lines 184-222
Calc ==
    /\ pc = "Calc"
    /\ depth_raw' = DepthDist(vec_line, Sub(p3, p1))
    /\ bbox' = BuildBox(p1, p2, p3, levels, active_view.GenLevel)
    /\ pc' = "FinalStart"
    /\ UNCHANGED <<active_view, levels, section_types, doc, doc0, tg, tgSnap, tx, txSnap,
                   temp_ids_to_delete, p1, p2, p3, prompts, alerts, exc, exit,
                   snapIn, snapOut, callIn, callOut, uiVars>>

\* lines 225-226: t_final = Transaction(...); t_final.Start()
FinalStart ==
    /\ pc = "FinalStart"
    /\ \/ StartTx("t_final") /\ pc' = "Cleanup" /\ exc' = exc
       \/ Raise(HostError) /\ UNCHANGED <<tx, txSnap>>
    /\ UNCHANGED <<active_view, levels, section_types, doc, doc0, tg, tgSnap,
                   temp_ids_to_delete, p1, p2, p3, bbox, depth_raw, prompts, alerts,
                   exit, snapIn, snapOut, callIn, callOut, uiVars>>

Range(s) == {s[i] : i \in DOMAIN s}

\* lines 229-230: doc.Delete(temp_ids_to_delete) unless the list is empty
Cleanup ==
    /\ pc = "Cleanup"
    /\ \/ /\ doc' = [doc EXCEPT !.curves = @ \ Range(temp_ids_to_delete)]
          /\ pc' = "ResolveType"
          /\ exc' = exc
       \/ /\ temp_ids_to_delete # <<>>
          /\ Raise(HostError)
          /\ doc' = doc
    /\ UNCHANGED <<active_view, levels, section_types, doc0, tg, tgSnap, tx, txSnap,
                   temp_ids_to_delete, p1, p2, p3, bbox, depth_raw, prompts, alerts,
                   exit, snapIn, snapOut, callIn, callOut, uiVars>>

\* lines 233-235: no section type: alert and exit, with t_final and the group
\* as they are
ResolveType ==
    /\ pc = "ResolveType"
    /\ IF get_default_section_type(section_types) = "None"
         THEN AlertAndExit("No Section View Type found.")
         ELSE pc' = "CreateSection" /\ UNCHANGED <<alerts, exit>>
    /\ UNCHANGED <<active_view, levels, section_types, doc, doc0, tg, tgSnap, tx, txSnap,
                   temp_ids_to_delete, p1, p2, p3, bbox, depth_raw, prompts, exc,
                   snapIn, snapOut, callIn, callOut, uiVars>>

\* the view ViewSection.CreateSection returns, before the script sets anything
NewSection(type, box) ==
    [id |-> "new_section", ViewFamilyType |-> type, bbox |-> box,
     CropBoxActive |-> FALSE, CropBoxVisible |-> TRUE,
     FarClipping |-> 0, FarOffset |-> Scalar(0, 1)]

\* line 237
CreateSection ==
    /\ pc = "CreateSection"
    /\ \/ /\ doc' = [doc EXCEPT !.views =
                        @ \cup {NewSection(get_default_section_type(section_types), bbox)}]
          /\ pc' = "ApplySettings"
          /\ exc' = exc
       \/ Raise(HostError) /\ doc' = doc
    /\ UNCHANGED <<active_view, levels, section_types, doc0, tg, tgSnap, tx, txSnap,
                   temp_ids_to_delete, p1, p2, p3, bbox, depth_raw, prompts, alerts,
                   exit, snapIn, snapOut, callIn, callOut, uiVars>>

\* lines 240-243
ApplyVisualSettings(v, depth_dist_ft) ==
    [v EXCEPT !.CropBoxActive = TRUE, !.CropBoxVisible = FALSE,
              !.FarClipping = 1, !.FarOffset = depth_dist_ft]

ApplySettings ==
    /\ pc = "ApplySettings"
    /\ \/ /\ doc' = [doc EXCEPT !.views =
                       {IF v.id = "new_section" THEN ApplyVisualSettings(v, bbox.Depth) ELSE v
                          : v \in @}]
          /\ pc' = "FinalCommit"
          /\ exc' = exc
       \/ Raise(HostError) /\ doc' = doc
    /\ UNCHANGED <<active_view, levels, section_types, doc0, tg, tgSnap, tx, txSnap,
                   temp_ids_to_delete, p1, p2, p3, bbox, depth_raw, prompts, alerts,
                   exit, snapIn, snapOut, callIn, callOut, uiVars>>

\* line 245: t_final.Commit()
FinalCommit ==
    /\ pc = "FinalCommit"
    /\ \/ CommitTx("t_final") /\ pc' = "Assimilate" /\ exc' = exc
       \/ Raise(HostError) /\ tx' = tx
    /\ UNCHANGED <<active_view, levels, section_types, doc, doc0, tg, tgSnap, txSnap,
                   temp_ids_to_delete, p1, p2, p3, bbox, depth_raw, prompts, alerts,
                   exit, snapIn, snapOut, callIn, callOut, uiVars>>

\* line 248: tg.Assimilate()
Assimilate ==
    /\ pc = "Assimilate"
    /\ \/ /\ tg' = "Assimilated"
          /\ exit' = "return"
          /\ pc' = "End"
          /\ exc' = exc
       \/ Raise(HostError) /\ UNCHANGED <<tg, exit>>
    /\ UNCHANGED <<active_view, levels, section_types, doc, doc0, tgSnap, tx, txSnap,
                   temp_ids_to_delete, p1, p2, p3, bbox, depth_raw, prompts, alerts,
                   snapIn, snapOut, callIn, callOut, uiVars>>

\* lines 252-253: the alert, unless the message mentions the cancellation
Report(e) ==
    IF ~MentionsOperationCanceled(e)
      THEN alerts' = Append(alerts, Alert("Error: {}", e.text))
      ELSE alerts' = alerts

\* lines 250-253.  tg.RollBack() is called whatever the state of the inner
\* transactions.  The host lets a group be closed only when every transaction
\* in it is finished; with one still open the call either is refused (an
\* InvalidOperationException leaves the handler: exit = "raise", nothing is
\* undone, no alert is shown) or undoes the open transaction together with
\* the group.  exc stays the exception caught at line 250.
Handler ==
    /\ pc = "Handler"
    /\ \/ /\ RollBackGroup
          /\ tx' = [t \in DOMAIN tx |-> IF tx[t] = "Started" THEN "RolledBack" ELSE tx[t]]
          /\ Report(exc)
          /\ exit' = "return"
          /\ exc' = exc
       \/ /\ OpenTx # {}
          /\ exit' = "raise"
          /\ UNCHANGED <<tg, doc, tx, alerts, exc>>
    /\ pc' = "End"
    /\ UNCHANGED <<active_view, levels, section_types, doc0, tgSnap, txSnap,
                   temp_ids_to_delete, p1, p2, p3, bbox, depth_raw, prompts,
                   snapIn, snapOut, callIn, callOut, uiVars>>

Next ==
    \/ Validate \/ StartGroup \/ Pick1 \/ CrumbStart \/ CrumbDraw \/ CrumbRegen
    \/ CrumbCommit \/ Pick2 \/ CheckLength \/ TempStart \/ TempDraw \/ TempCommit
    \/ Pick3 \/ Calc \/ FinalStart \/ Cleanup \/ ResolveType \/ CreateSection
    \/ ApplySettings \/ FinalCommit \/ Assimilate \/ Handler

Spec == Init /\ [][Next]_vars

(***************************************************************************)
(* snap_ortho_with_tolerance on its own: every pair of flattened points of *)
(* a small grid and every tolerance of Tolerances, the coordinates in      *)
(* tenths of a millimetre or in the unit of a session                      *)
(***************************************************************************)
Grids == {1, SessionGrid}

SnapCoord == (-MaxSnap)..MaxSnap

InitSnap ==
    /\ pc = "Snap"
    /\ snapIn \in [p1 : {XYZ(x, y, 0) : x \in {0, 1}, y \in {0, 1}},
                   p2 : {XYZ(x, y, 0) : x \in SnapCoord, y \in SnapCoord},
                   t : Tolerances,
                   grid : Grids]
    /\ snapOut = NoPoint
    /\ callIn = NoCall
    /\ callOut = 0
    /\ NoUi
    /\ active_view = [ViewType |-> "FloorPlan", GenLevel |-> 1]
    /\ levels = <<0, 300>>
    /\ section_types = <<>>
    /\ doc = [curves |-> {"existing"}, views |-> {}]
    /\ doc0 = doc
    /\ tg = "NotStarted"
    /\ tgSnap = doc
    /\ tx = [t \in {"t_crumb", "t_temp", "t_final"} |-> "NotStarted"]
    /\ txSnap = doc
    /\ temp_ids_to_delete = <<>>
    /\ p1 = NoPoint /\ p2 = NoPoint /\ p3 = NoPoint
    /\ bbox = NoBox
    /\ depth_raw = Scalar(0, 1)
    /\ prompts = <<>>
    /\ alerts = <<>>
    /\ exc = NoException
    /\ exit = "running"

SnapCall ==
    /\ pc = "Snap"
    /\ snapOut' = snap_ortho_on_grid(snapIn.p1, snapIn.p2, snapIn.t, snapIn.grid)
    /\ pc' = "SnapDone"
    /\ UNCHANGED <<active_view, levels, section_types, doc, doc0, tg, tgSnap, tx, txSnap,
                   temp_ids_to_delete, p1, p2, p3, bbox, depth_raw, prompts, alerts,
                   exc, exit, snapIn, callIn, callOut, uiVars>>

NextSnap == SnapCall

SpecSnap == InitSnap /\ [][NextSnap]_vars

(***************************************************************************)
(* snap_ortho_with_tolerance applied twice: the second call is given the   *)
(* first point again and the result of the first call.  The second point   *)
(* may lie above the plane of the first                                    *)
(***************************************************************************)
InitSnapTwice ==
    /\ pc = "Snap"
    /\ snapIn \in [p1 : {XYZ(x, y, 0) : x \in {0, 1}, y \in {0, 1}},
                   p2 : {XYZ(x, y, z) : x \in SnapCoord, y \in SnapCoord, z \in {0, 1}},
                   t : Tolerances,
                   grid : Grids]
    /\ snapOut = NoPoint
    /\ callIn = NoCall
    /\ callOut = NoPoint
    /\ NoUi
    /\ active_view = [ViewType |-> "FloorPlan", GenLevel |-> 1]
    /\ levels = <<0, 300>>
    /\ section_types = <<>>
    /\ doc = [curves |-> {"existing"}, views |-> {}]
    /\ doc0 = doc
    /\ tg = "NotStarted"
    /\ tgSnap = doc
    /\ tx = [t \in {"t_crumb", "t_temp", "t_final"} |-> "NotStarted"]
    /\ txSnap = doc
    /\ temp_ids_to_delete = <<>>
    /\ p1 = NoPoint /\ p2 = NoPoint /\ p3 = NoPoint
    /\ bbox = NoBox
    /\ depth_raw = Scalar(0, 1)
    /\ prompts = <<>>
    /\ alerts = <<>>
    /\ exc = NoException
    /\ exit = "running"

SnapAgain ==
    /\ pc = "SnapDone"
    /\ callOut' = snap_ortho_on_grid(snapIn.p1, snapOut, snapIn.t, snapIn.grid)
    /\ pc' = "SnapTwice"
    /\ UNCHANGED <<active_view, levels, section_types, doc, doc0, tg, tgSnap, tx, txSnap,
                   temp_ids_to_delete, p1, p2, p3, bbox, depth_raw, prompts, alerts,
                   exc, exit, snapIn, snapOut, callIn, uiVars>>

NextSnapTwice == SnapCall \/ SnapAgain

SpecSnapTwice == InitSnapTwice /\ [][NextSnapTwice]_vars

(***************************************************************************)
(* The height lookup of lines 203-208 (get_upper_level included) on its    *)
(* own: every collection of 1..MaxLevels levels in every collector order,  *)
(* equal elevations included, and every current level of the collection    *)
(***************************************************************************)
Elevations == {0, 300, 600}

\* no session is running
NoSession ==
    /\ active_view = [ViewType |-> "FloorPlan", GenLevel |-> 1]
    /\ levels = <<0, 300>>
    /\ section_types = <<>>
    /\ doc = [curves |-> {"existing"}, views |-> {}]
    /\ doc0 = doc
    /\ tg = "NotStarted"
    /\ tgSnap = doc
    /\ tx = [t \in {"t_crumb", "t_temp", "t_final"} |-> "NotStarted"]
    /\ txSnap = doc
    /\ temp_ids_to_delete = <<>>
    /\ p1 = NoPoint /\ p2 = NoPoint /\ p3 = NoPoint
    /\ bbox = NoBox
    /\ depth_raw = Scalar(0, 1)
    /\ prompts = <<>>
    /\ alerts = <<>>
    /\ exc = NoException
    /\ exit = "running"

InitLevels ==
    /\ pc = "Levels"
    /\ \E n \in 1..MaxLevels : callIn \in [levels : [1..n -> Elevations], current : 1..n]
    /\ callOut = 0
    /\ NoUi
    /\ snapIn = NoSnap
    /\ snapOut = NoPoint
    /\ NoSession

HeightCall ==
    /\ pc = "Levels"
    /\ callOut' = Height(callIn.levels, callIn.current)
    /\ pc' = "LevelsDone"
    /\ UNCHANGED <<active_view, levels, section_types, doc, doc0, tg, tgSnap, tx, txSnap,
                   temp_ids_to_delete, p1, p2, p3, bbox, depth_raw, prompts, alerts,
                   exc, exit, snapIn, snapOut, callIn, uiVars>>

NextLevels == HeightCall

SpecLevels == InitLevels /\ [][NextLevels]_vars

(***************************************************************************)
(* Vocabulary of the properties                                            *)
(***************************************************************************)
Ended == pc = "End"

OverlayIds == {"crumb1", "crumb2", "connector"}

LastAlert == alerts[Len(alerts)]

EndedTooShort ==
    Ended /\ alerts # <<>> /\ LastAlert.text = "Section line is too short"

EndedNoType ==
    Ended /\ alerts # <<>> /\ LastAlert.text = "No Section View Type found."

\* the outcome of a finished run: Done, Cancelled, Failed, or Error when an
\* exception left the function
Outcome ==
    CASE exit = "running" -> "none"
      [] exit = "raise" -> "Error"
      [] exit = "SystemExit" -> "Failed"
      [] exit = "return" /\ tg = "Assimilated" -> "Done"
      [] exit = "return" /\ tg # "Assimilated" /\ exc.type = "OperationCanceledException"
           -> "Cancelled"
      [] OTHER -> "Failed"

MinLengthSq == Sq(mm_to_ft(MIN_SECTION_LENGTH_MM))

\* the result of the lone snap call shares a coordinate with the first point
SnapAligned == snapOut.X = snapIn.p1.X \/ snapOut.Y = snapIn.p1.Y

\* the two points of the lone snap call are closer than 0.001 ft (3.048
\* tenths of a millimetre)
SnapDegenerate == LengthSq(Sub(snapIn.p2, snapIn.p1)) * Sq(snapIn.grid) * 100 < 930

(***************************************************************************)
(* C1  A run in which the user cancels a pick (the first, second or third) *)
(* ends with the transaction group rolled back, no inner transaction open  *)
(* and the document as it was when the run started: no new section view,   *)
(* no breadcrumb, no connector.                                            *)
(***************************************************************************)
C1_CancelRollsBack ==
    (Ended /\ exc.type = "OperationCanceledException") =>
        /\ tg = "RolledBack"
        /\ OpenTx = {}
        /\ doc = doc0
        /\ doc.curves \cap OverlayIds = {}
        /\ doc.views = {}

\* a cancellation at the third pick, after breadcrumb and connector were drawn
C1_Witness ==
    /\ Ended
    /\ exc.type = "OperationCanceledException"
    /\ Len(prompts) = 3
    /\ temp_ids_to_delete = <<"crumb1", "crumb2", "connector">>
    /\ doc = doc0

(***************************************************************************)
(* C2  (as claimed) When a host call raises an exception other than a      *)
(* cancellation after the group was started and the exception reaches the  *)
(* handler, everything done since the start of the run is undone as one    *)
(* unit and the run ends Failed.                                           *)
(***************************************************************************)
C2_HostFailureUndoesAll ==
    (Ended /\ exc.type = "HostError") =>
        /\ doc = doc0
        /\ OpenTx = {}
        /\ tg = "RolledBack"
        /\ Outcome = "Failed"

(***************************************************************************)
(* C3  (as claimed) When a run has ended, by whatever path, none of the    *)
(* overlay curves it created (breadcrumb lines, connector line) is left in *)
(* the document.                                                           *)
(***************************************************************************)
C3_NoOverlayOutlivesSession ==
    Ended => doc.curves \cap OverlayIds = {}

(***************************************************************************)
(* C4  (as claimed) When no section view type is found, the run alerts and *)
(* rolls back: the group is rolled back, no inner transaction or group is  *)
(* left open, and the document is as it was at the start.                  *)
(***************************************************************************)
C4_NoTypeRollsBack ==
    EndedNoType =>
        /\ tg = "RolledBack"
        /\ OpenTx = {}
        /\ doc = doc0

(***************************************************************************)
(* C5  A snapped segment shorter than the minimum length is rejected with  *)
(* the too-short alert: the third pick is never requested, no section view *)
(* is created, and the rollback removes the breadcrumb drawn after the     *)
(* first pick.                                                             *)
(***************************************************************************)
C5_TooShortRejected ==
    /\ (Len(prompts) >= 2 /\ pc \notin {"Pick2", "CheckLength", "Handler"}
          /\ exc.type = "none" /\ LengthSq(vec_line) < MinLengthSq)
         => EndedTooShort
    /\ EndedTooShort =>
         /\ Len(prompts) = 2
         /\ Len(alerts) = 1
         /\ tg = "RolledBack"
         /\ tx["t_final"] = "NotStarted"
         /\ doc.views = {}
         /\ doc.curves \cap OverlayIds = {}
         /\ doc = doc0

\* a rejection after the breadcrumb had been drawn and committed
C5_Witness ==
    /\ EndedTooShort
    /\ tx["t_crumb"] = "Committed"
    /\ temp_ids_to_delete = <<"crumb1", "crumb2">>
    /\ LengthSq(vec_line) > 0

(***************************************************************************)
(* C6  The length check accepts a snapped segment whose length equals the  *)
(* minimum and rejects every segment strictly shorter.                     *)
(***************************************************************************)
C6_LengthBoundary ==
    /\ pc \in {"TempStart", "TempDraw", "TempCommit", "Pick3", "Calc"}
         => LengthSq(vec_line) >= MinLengthSq
    /\ EndedTooShort => LengthSq(vec_line) < MinLengthSq

\* a diagonal segment of exactly the minimum length, accepted
C6_Witness ==
    /\ pc = "TempStart"
    /\ LengthSq(vec_line) = MinLengthSq
    /\ vec_line.X # 0 /\ vec_line.Y # 0

(***************************************************************************)
(* C7  The final depth is the perpendicular distance d from the line       *)
(* through the first two picks to the third pick whenever d is at least    *)
(* the minimum depth, and is the default depth (not the minimum, not d)    *)
(* whenever d is strictly below the minimum.  With v = p2 - p1 and         *)
(* w = p3 - p1, d^2 * |v|^2 = |w|^2 * |v|^2 - (v.w)^2.                     *)
(***************************************************************************)
DistSqTimesLenSq ==
    LengthSq(Sub(p3, p1)) * LengthSq(vec_line) - Sq(DotProduct(vec_line, Sub(p3, p1)))

MinDepthSqTimesLenSq == Sq(mm_to_ft(MIN_DEPTH_MM)) * LengthSq(vec_line)

C7_DepthBoundary ==
    pc \in {"FinalStart", "Cleanup", "ResolveType", "CreateSection", "ApplySettings",
            "FinalCommit", "Assimilate"} =>
        IF DistSqTimesLenSq >= MinDepthSqTimesLenSq
          THEN Sq(bbox.Depth.n) * LengthSq(vec_line) = DistSqTimesLenSq * bbox.Depth.r
          ELSE /\ bbox.Depth = Scalar(mm_to_ft(DEFAULT_DEPTH_MM), 1)
               /\ bbox.Depth # Scalar(mm_to_ft(MIN_DEPTH_MM), 1)
               /\ Sq(bbox.Depth.n) * LengthSq(vec_line) # DistSqTimesLenSq * bbox.Depth.r

\* a third pick at exactly the minimum depth from the line: kept as it is
C7_Witness ==
    /\ pc = "FinalStart"
    /\ DistSqTimesLenSq = MinDepthSqTimesLenSq
    /\ bbox.Depth = depth_raw
    /\ bbox.Depth # Scalar(mm_to_ft(DEFAULT_DEPTH_MM), 1)

(***************************************************************************)
(* C8  (as claimed) A run that ends because a pick was cancelled shows no  *)
(* alert; a run that ends through any other exception caught at line 250   *)
(* shows one alert, carrying the message of that exception.                *)
(***************************************************************************)
C8_AlertUnlessCancelled ==
    (Ended /\ exc.type # "none") =>
        IF exc.type = "OperationCanceledException"
          THEN alerts = <<>>
          ELSE alerts = <<Alert("Error: {}", exc.text)>>

(***************************************************************************)
(* C9  Invoked from a view that is no floor or ceiling plan, or from a     *)
(* view without a level, the tool alerts and stops before the first pick:  *)
(* no pick is requested, neither the group nor a transaction is started,   *)
(* and the document is unchanged.                                          *)
(***************************************************************************)
C9_InvalidContext ==
    (active_view.ViewType \notin {"FloorPlan", "CeilingPlan"} \/ active_view.GenLevel = 0) =>
        /\ prompts = <<>>
        /\ tg = "NotStarted"
        /\ \A t \in DOMAIN tx : tx[t] = "NotStarted"
        /\ doc = doc0
        /\ pc \in {"Validate", "End"}
        /\ Ended =>
             /\ exit = "SystemExit"
             /\ Len(alerts) = 1
             /\ alerts[1].text \in {"Please run this tool from a Floor or Ceiling Plan.",
                                    "Current view does not have an associated level."}

\* a plan view without a level: alerted and ended
C9_Witness ==
    /\ Ended
    /\ active_view.ViewType = "CeilingPlan"
    /\ active_view.GenLevel = 0
    /\ alerts = <<Alert("Current view does not have an associated level.", "")>>
    /\ prompts = <<>>

(***************************************************************************)
(* C10  For a tolerance t and a non-degenerate direction from p1 to p2 at  *)
(* angle theta to the X axis (0 <= theta <= 90): if min(theta, 90 - theta) *)
(* < t the result shares p1's Y or p1's X, otherwise it is p2 itself.      *)
(* theta < t is decided on the tangent: |dy| < tan(t) * |dx|, with         *)
(* tan(t) = (c + d*sqrt(3)) / 3.                                           *)
(***************************************************************************)
Tan3(t) ==
    CASE t = 0  -> <<0, 0>>
      [] t = 15 -> <<6, -3>>
      [] t = 30 -> <<0, 1>>
      [] t = 45 -> <<3, 0>>
      [] t = 60 -> <<0, 3>>
      [] t = 75 -> <<6, 3>>

\* X < sqrt(3) * Y for integers X and Y of either sign
LtSqrt3(X, Y) ==
    IF Y > 0 THEN X <= 0 \/ Sq(X) < 3 * Sq(Y)
    ELSE IF Y = 0 THEN X < 0
    ELSE X < 0 /\ Sq(X) > 3 * Sq(Y)

\* the angle between the direction (a, b), a >= 0, b >= 0, not both 0, and the
\* axis of a is less than t degrees
AngleLess(a, b, t) ==
    IF t = 90 THEN a # 0
    ELSE a # 0 /\ LtSqrt3(3 * b - Tan3(t)[1] * a, Tan3(t)[2] * a)

C10_SnapWithinTolerance ==
    (pc = "SnapDone" /\ ~SnapDegenerate) =>
        LET dx == Abs(snapIn.p2.X - snapIn.p1.X)
            dy == Abs(snapIn.p2.Y - snapIn.p1.Y)
        IN  IF AngleLess(dx, dy, snapIn.t) \/ AngleLess(dy, dx, snapIn.t)
              THEN snapOut.Y = snapIn.p1.Y \/ snapOut.X = snapIn.p1.X
              ELSE snapOut = snapIn.p2

\* a direction 18.4 degrees off the Y axis, snapped vertical at tolerance 30
C10_Witness ==
    /\ pc = "SnapDone"
    /\ snapIn.t = 30
    /\ Abs(snapIn.p2.X - snapIn.p1.X) = 1
    /\ Abs(snapIn.p2.Y - snapIn.p1.Y) = 3
    /\ snapOut = XYZ(snapIn.p1.X, snapIn.p2.Y, 0)
    /\ snapOut # snapIn.p2

(***************************************************************************)
(* C11: the two extreme tolerances                                         *)
(***************************************************************************)
\* C11 as stated: with tolerance 0 the second point is returned unchanged for
\* every pair of points, and with tolerance 90 the result is axis-aligned with
\* the first point for every pair of points
C11_ExtremeTolerances ==
    pc = "SnapDone" =>
        /\ snapIn.t = 0 => snapOut = snapIn.p2
        /\ snapIn.t = 90 => SnapAligned

\* C11, amended: with tolerance 0 the second point is returned unchanged for
\* every pair of points; with tolerance 90 the result is axis-aligned with the
\* first point for every pair of points at least 0.001 ft apart, and a pair
\* closer than that is returned unchanged whatever the tolerance
C11_ExtremeTolerancesApart ==
    pc = "SnapDone" =>
        /\ snapIn.t = 0 => snapOut = snapIn.p2
        /\ (snapIn.t = 90 /\ ~SnapDegenerate) => SnapAligned
        /\ SnapDegenerate => snapOut = snapIn.p2

\* a diagonal pair far enough apart, snapped at tolerance 90
C11_Witness ==
    /\ pc = "SnapDone"
    /\ snapIn.t = 90
    /\ ~SnapDegenerate
    /\ Abs(snapIn.p2.X - snapIn.p1.X) = Abs(snapIn.p2.Y - snapIn.p1.Y)
    /\ snapOut # snapIn.p2
    /\ SnapAligned

(***************************************************************************)
(* C12: the height from the next level above                               *)
(***************************************************************************)
\* the elevations of the collection that lie above the current level's
ElevationsAbove(lv, current) == {lv[i] : i \in DOMAIN lv} \cap {e \in Elevations : e > lv[current]}

MinOf(S) == CHOOSE e \in S : \A f \in S : e <= f

\* C12: for every collection of levels and every current level in it, the
\* height is the next higher elevation minus the current level's elevation,
\* and it is the default height exactly when no level lies above the current
\* one
C12_HeightToNextHigher ==
    pc = "LevelsDone" =>
        LET above == ElevationsAbove(callIn.levels, callIn.current)
        IN  IF above = {}
              THEN callOut = mm_to_ft(DEFAULT_HEIGHT_MM)
              ELSE callOut = MinOf(above) - callIn.levels[callIn.current]

(***************************************************************************)
(* C13: the vertical extent of the volume in world space                   *)
(***************************************************************************)
\* the box is built (lines 184-222)
BoxBuilt == bbox # NoBox

\* twice the world Z of the local point (0, y, 0): Origin + y * BasisY
WorldZ2(y) == bbox.Origin2.Z + 2 * y * bbox.BasisY.Z

\* C13: for every current level elevation, the vertical extent of the volume
\* in world space starts at the elevation of the current level and ends at
\* the next level elevation above it, or at the base plus the default height
\* when there is none
C13_VerticalExtent ==
    BoxBuilt =>
        LET base == levels[active_view.GenLevel]
            above == ElevationsAbove(levels, active_view.GenLevel)
        IN  /\ WorldZ2(0) = 2 * base
            /\ WorldZ2(bbox.Height) =
                  2 * (IF above = {} THEN base + mm_to_ft(DEFAULT_HEIGHT_MM) ELSE MinOf(above))

(***************************************************************************)
(* C14: a visual aid that cannot be drawn does not stop the session        *)
(***************************************************************************)
\* C14: a failure to create the breadcrumb lines or the connector line never
\* aborts the session: the step that drew nothing (no id recorded) leaves no
\* exception in flight and the session open and running, and goes on to the
\* statements that lead to the next pick
C14_DrawFailureSwallowed ==
    [][/\ (pc = "CrumbDraw" /\ temp_ids_to_delete' = temp_ids_to_delete) =>
            /\ pc' = "CrumbRegen"
            /\ exc' = NoException /\ exit' = "running"
            /\ tg' = "Started" /\ tx'["t_crumb"] = "Started"
       /\ (pc = "TempDraw" /\ temp_ids_to_delete' = temp_ids_to_delete) =>
            /\ pc' = "TempCommit"
            /\ exc' = NoException /\ exit' = "running"
            /\ tg' = "Started" /\ tx'["t_temp"] = "Started"]_vars

\* a run in which neither the breadcrumb nor the connector could be drawn,
\* all three picks were requested and the section view was created
C14_Witness ==
    /\ Ended
    /\ Outcome = "Done"
    /\ temp_ids_to_delete = <<>>
    /\ Len(prompts) = 3
    /\ \E v \in doc.views : v.id = "new_section"

(***************************************************************************)
(* C15: what a session leaves in the document                              *)
(***************************************************************************)
\* C15: a successful session leaves the document differing from its start
\* state by exactly one new section view and nothing else, with the inner
\* transactions assimilated into one undoable action; every unsuccessful
\* session leaves the document unchanged
C15_OneNewViewOrNothing ==
    Ended =>
        IF Outcome = "Done"
          THEN /\ doc.curves = doc0.curves
               /\ \E v \in doc.views :
                     /\ v.id = "new_section"
                     /\ v \notin doc0.views
                     /\ doc.views = doc0.views \cup {v}
               /\ tg = "Assimilated"
               /\ \A t \in DOMAIN tx : tx[t] = "Committed"
          ELSE doc = doc0

(***************************************************************************)
(* C16: no error leaves create_3_click_section                             *)
(***************************************************************************)
\* C16: no error propagates past the entry point: whatever fails (invalid
\* context, too short a line, no section type, a host exception, a cancelled
\* pick), the call ends in Done, Cancelled or Failed
C16_NoErrorEscapes == Ended => Outcome \in {"Done", "Cancelled", "Failed"}

(***************************************************************************)
(* C17: every overlay artifact is recorded for the cleanup                 *)
(***************************************************************************)
\* the cleanup of lines 229-230 has not started
BeforeCleanup == tg = "Started" /\ tx["t_final"] = "NotStarted"

\* the cleanup of lines 229-230 is over
AfterCleanup == pc \in {"ResolveType", "CreateSection", "ApplySettings", "FinalCommit", "Assimilate"}

\* C17: every overlay artifact a session creates is recorded in
\* temp_ids_to_delete when the inner transaction that created it commits,
\* also when only one of the two breadcrumb lines could be created, so that
\* the cleanup of the finalization deletes every artifact created
C17_OverlaysRecorded ==
    /\ (BeforeCleanup /\ tx["t_crumb"] = "Committed") =>
          (doc.curves \cap {"crumb1", "crumb2"}) \subseteq Range(temp_ids_to_delete)
    /\ (BeforeCleanup /\ tx["t_temp"] = "Committed") =>
          (doc.curves \cap {"connector"}) \subseteq Range(temp_ids_to_delete)
    /\ AfterCleanup => doc.curves \cap OverlayIds = {}

(***************************************************************************)
(* C18-C20: the view direction and the transform of the volume             *)
(***************************************************************************)
\* C18: for every accepted segment and every third pick, the view direction
\* chosen has a non-negative dot product with the vector from the start
\* point to the third pick
C18_ViewDirTowardsPick ==
    BoxBuilt => DotProduct(bbox.BasisZ, Sub(p3, p1)) >= 0

\* a third pick on the other side of the line: the direction was flipped
C18_Witness ==
    /\ BoxBuilt
    /\ bbox.BasisZ = Neg(CrossProduct(vec_line, BasisZ))
    /\ DotProduct(bbox.BasisZ, Sub(p3, p1)) > 0

\* the box is about to be handed to ViewSection.CreateSection (line 237)
BoxGiven == pc = "CreateSection"

\* C19: for every accepted segment the transform given to the host has three mutually
\* orthogonal basis vectors of unit length forming a right-handed frame, with
\* BasisZ (the view direction) perpendicular to the segment and lying in the
\* construction plane, and BasisY equal to world up.  BasisX and BasisZ are
\* the stored integer vectors over sqrt(norm), so unit length is
\* LengthSq = norm
C19_RightHandedUnitFrame ==
    BoxGiven =>
        /\ bbox.norm > 0
        /\ LengthSq(bbox.BasisX) = bbox.norm
        /\ LengthSq(bbox.BasisZ) = bbox.norm
        /\ bbox.BasisY = XYZ(0, 0, 1)
        /\ DotProduct(bbox.BasisX, bbox.BasisY) = 0
        /\ DotProduct(bbox.BasisY, bbox.BasisZ) = 0
        /\ DotProduct(bbox.BasisZ, bbox.BasisX) = 0
        /\ CrossProduct(bbox.BasisX, bbox.BasisY) = bbox.BasisZ
        /\ DotProduct(bbox.BasisZ, vec_line) = 0
        /\ bbox.BasisZ.Z = 0

\* a diagonal segment whose view direction was flipped
C19_Witness ==
    /\ BoxGiven
    /\ vec_line.X # 0 /\ vec_line.Y # 0
    /\ bbox.BasisZ = Neg(CrossProduct(vec_line, BasisZ))

\* twice Length * BasisX, the vector from one end of the local X range to the
\* other: Length is n / sqrt(r) and BasisX the stored vector over sqrt(norm)
WidthVector2 ==
    XYZ((2 * bbox.Length.n * bbox.BasisX.X) \div bbox.norm,
        (2 * bbox.Length.n * bbox.BasisX.Y) \div bbox.norm,
        (2 * bbox.Length.n * bbox.BasisX.Z) \div bbox.norm)

\* C20: the width of the volume spans exactly the snapped segment: the local
\* X range [-Length/2, Length/2], mapped through the transform, has the start
\* point and the snapped end point as its two ends, for either view direction
C20_WidthSpansSegment ==
    BoxGiven =>
        /\ bbox.Length.r = bbox.norm
        /\ \A k \in {bbox.BasisX.X, bbox.BasisX.Y, bbox.BasisX.Z} :
              (2 * bbox.Length.n * k) % bbox.norm = 0
        /\ LET lo2 == XYZ(2 * bbox.Origin2.X - WidthVector2.X,
                          2 * bbox.Origin2.Y - WidthVector2.Y,
                          2 * bbox.Origin2.Z - WidthVector2.Z)
               hi2 == XYZ(2 * bbox.Origin2.X + WidthVector2.X,
                          2 * bbox.Origin2.Y + WidthVector2.Y,
                          2 * bbox.Origin2.Z + WidthVector2.Z)
               four(p) == XYZ(4 * p.X, 4 * p.Y, 4 * p.Z)
           IN  {lo2, hi2} = {four(p1), four(p2)}

\* a diagonal segment seen from the side that makes BasisX point from the
\* end point to the start point
C20_Witness ==
    /\ BoxGiven
    /\ vec_line.X > 0 /\ vec_line.Y > 0
    /\ bbox.BasisX = Neg(vec_line)
    /\ Len(prompts) = 3
    /\ bbox.Length.n = LengthSq(vec_line)

(***************************************************************************)
(* C21: the order of the picks                                             *)
(***************************************************************************)
PickOrder == <<"Click 1: Start of Section Line", "Click 2: End of Section Line",
               "Click 3: Define Section Depth/Direction">>

\* a pick was cancelled, or the line was rejected as too short
Rejected ==
    \/ exc.type = "OperationCanceledException"
    \/ \E i \in DOMAIN alerts : alerts[i].text = "Section line is too short"

\* C21: picks are requested strictly in the order start, end, depth; a
\* successful run requests exactly three picks; after a cancellation or a
\* too-short rejection no further pick is requested and the view-creation
\* transaction is never started
C21_PickOrder ==
    /\ [](/\ Len(prompts) <= 3
          /\ \A i \in DOMAIN prompts : prompts[i] = PickOrder[i]
          /\ (Ended /\ Outcome = "Done") => Len(prompts) = 3
          /\ Rejected => tx["t_final"] = "NotStarted")
    /\ [][Rejected => (prompts' = prompts /\ tx'["t_final"] = "NotStarted")]_vars

\* a run cancelled at the second pick, after which nothing more was asked
C21_Witness ==
    /\ Ended
    /\ exc.type = "OperationCanceledException"
    /\ Len(prompts) = 2
    /\ tx["t_crumb"] = "Committed"

(***************************************************************************)
(* C22: the inner transactions are finished before the group is ended      *)
(***************************************************************************)
\* C22: whenever RollBack or Assimilate is called on the transaction group
\* (the handler of line 250 calls RollBack as its first statement), every
\* inner transaction that was started has already been committed or rolled
\* back
C22_InnerClosedBeforeGroupEnds ==
    [][(pc = "Handler" \/ (tg = "Started" /\ tg' # "Started")) => OpenTx = {}]_vars

(***************************************************************************)
(* C23: snapping twice                                                     *)
(***************************************************************************)
\* C23: for every p1, p2 and tolerance, snapping the snapped point again
\* relative to the same p1 returns it unchanged
C23_SnapIdempotent == pc = "SnapTwice" => callOut = snapOut

\* a second point above the plane of the first that the first call moved
C23_Witness ==
    /\ pc = "SnapTwice"
    /\ snapIn.p2.Z = 1
    /\ snapOut # snapIn.p2
    /\ callOut = snapOut

(***************************************************************************)
(* Section.panel/Perpendicular.pushbutton/script.py: two sections through  *)
(* one picked point, inside one transaction t                              *)
(***************************************************************************)
SECTION_TYPE_NAME == "AL_Section"
SECTION_LENGTH_MM == 3000
FAR_CLIP_MM == 100

\* the variables the script does not touch
perpIdle == <<levels, tg, tgSnap, temp_ids_to_delete, p2, p3, bbox, depth_raw,
              snapIn, snapOut, callIn, callOut, win, handler, pending, sent, events>>

\* a failure of the named host call
HostErrorIn(call) == [type |-> "HostError", text |-> call]

OrthoDirection == [X |-> XYZ(1, 0, 0), Y |-> XYZ(0, 1, 0)]

OrthoId == [X |-> "ortho_X", Y |-> "ortho_Y"]

\* the positions inside the two calls of create_ortho_section
OrthoPc == [Type   |-> [X |-> "OrthoTypeX",   Y |-> "OrthoTypeY"],
            Create |-> [X |-> "OrthoCreateX", Y |-> "OrthoCreateY"],
            Set    |-> [X |-> "OrthoSetX",    Y |-> "OrthoSetY"]]

InitPerp ==
    /\ pc = "PerpCheck"
    /\ active_view \in {v \in [ViewType : {"FloorPlan", "CeilingPlan", "Section"}, GenLevel : 0..2] :
                          v.ViewType = "Section" => v.GenLevel = 0}
    /\ levels = <<0, 300>>
    /\ section_types \in {<<>>, <<"Building Section">>, <<"Building Section", "AL_Section">>}
    /\ doc = [curves |-> {"existing"}, views |-> {}]
    /\ doc0 = doc
    /\ tx = [t \in {"t"} |-> "NotStarted"]
    /\ txSnap = doc
    /\ p1 = NoPoint
    /\ prompts = <<>>
    /\ alerts = <<>>
    /\ exc = NoException
    /\ exit = "running"
    /\ tg = "NotStarted"
    /\ tgSnap = doc
    /\ temp_ids_to_delete = <<>>
    /\ p2 = NoPoint /\ p3 = NoPoint
    /\ bbox = NoBox
    /\ depth_raw = Scalar(0, 1)
    /\ snapIn = NoSnap
    /\ snapOut = NoPoint
    /\ callIn = NoCall
    /\ callOut = 0
    /\ NoUi

\* lines 90-92: the view must have a level
PerpCheck ==
    /\ pc = "PerpCheck"
    /\ IF active_view.GenLevel = 0
         THEN AlertAndExit("This tool must be run in a Floor or Ceiling Plan associated with a Level.")
         ELSE pc' = "PerpPick" /\ UNCHANGED <<alerts, exit>>
    /\ UNCHANGED <<active_view, section_types, doc, doc0, tx, txSnap, p1, prompts, exc>>
    /\ UNCHANGED perpIdle

\* an exception that only the outer except of line 110 catches
RaiseOuter(e) == pc' = "PerpOuter" /\ exc' = e

\* line 96: the pick; the point keeps the elevation of the plan's level
PerpPick ==
    /\ pc = "PerpPick"
    /\ prompts' = Append(prompts, "Select intersection point")
    /\ \/ \E x \in Coord, y \in Coord :
             /\ p1' = XYZ(x, y, PickZ)
             /\ pc' = "PerpStart"
             /\ exc' = exc
       \/ \E e \in {OperationCanceled, HostErrorIn("PickPoint")} : RaiseOuter(e) /\ p1' = p1
    /\ UNCHANGED <<active_view, section_types, doc, doc0, tx, txSnap, alerts, exit>>
    /\ UNCHANGED perpIdle

\* lines 99-100: with DB.Transaction(...) as t: t.Start()
PerpStart ==
    /\ pc = "PerpStart"
    /\ \/ StartTx("t") /\ pc' = OrthoPc.Type.X /\ exc' = exc
       \/ RaiseOuter(HostErrorIn("t.Start")) /\ UNCHANGED <<tx, txSnap>>
    /\ UNCHANGED <<active_view, section_types, doc, doc0, p1, prompts, alerts, exit>>
    /\ UNCHANGED perpIdle

\* an exception inside the try of lines 101-104 reaches the except of line 105
RaiseInner(e) == pc' = "PerpHandler" /\ exc' = e

\* leaving the with block of line 99 with t still started: Dispose() rolls
\* the transaction back
DisposeTx ==
    IF tx["t"] = "Started"
      THEN tx' = [tx EXCEPT !["t"] = "RolledBack"] /\ doc' = txSnap
      ELSE UNCHANGED <<tx, doc>>

\* lines 32-56: the box of one section; lengths in coordinate units
OrthoBox(origin, direction, lv, curr_level) ==
    [Length |-> mm_to_ft(SECTION_LENGTH_MM),
     Height |-> Height(lv, curr_level),
     Depth |-> mm_to_ft(FAR_CLIP_MM),
     Origin |-> origin,
     BasisX |-> direction,
     BasisY |-> BasisZ,
     BasisZ |-> CrossProduct(direction, BasisZ)]

\* lines 59-65: without the type named SECTION_TYPE_NAME the script exits;
\* SystemExit passes the except clauses of lines 105 and 110
OrthoType(d) ==
    /\ pc = OrthoPc.Type[d]
    /\ IF \E i \in 1..Len(section_types) : section_types[i] = SECTION_TYPE_NAME
         THEN /\ pc' = OrthoPc.Create[d]
              /\ UNCHANGED <<alerts, exit, tx, doc>>
         ELSE /\ AlertAndExit("Could not find Section Type: {}. Please create it first.")
              /\ DisposeTx
    /\ UNCHANGED <<active_view, section_types, doc0, txSnap, p1, prompts, exc>>
    /\ UNCHANGED perpIdle

\* line 68: the view as ViewSection.CreateSection returns it
NewOrthoSection(d) ==
    [id |-> OrthoId[d], ViewFamilyType |-> SECTION_TYPE_NAME,
     bbox |-> OrthoBox(p1, OrthoDirection[d], levels, active_view.GenLevel),
     CropBoxActive |-> FALSE, CropBoxVisible |-> TRUE,
     FarOffset |-> 0, CoarserScale |-> 0]

OrthoCreate(d) ==
    /\ pc = OrthoPc.Create[d]
    /\ \/ /\ doc' = [doc EXCEPT !.views = @ \cup {NewOrthoSection(d)}]
          /\ pc' = OrthoPc.Set[d]
          /\ exc' = exc
       \/ RaiseInner(HostErrorIn(IF d = "X" THEN "CreateSection X" ELSE "CreateSection Y"))
          /\ doc' = doc
    /\ UNCHANGED <<active_view, section_types, doc0, tx, txSnap, p1, prompts, alerts, exit>>
    /\ UNCHANGED perpIdle

\* lines 71-83: the overrides of the new view
OrthoOverrides(v) ==
    [v EXCEPT !.CropBoxActive = TRUE, !.CropBoxVisible = FALSE,
              !.FarOffset = mm_to_ft(FAR_CLIP_MM), !.CoarserScale = 5000]

OrthoSet(d) ==
    /\ pc = OrthoPc.Set[d]
    /\ \/ /\ doc' = [doc EXCEPT !.views =
                       {IF v.id = OrthoId[d] THEN OrthoOverrides(v) ELSE v : v \in @}]
          /\ pc' = IF d = "X" THEN OrthoPc.Type.Y ELSE "PerpCommit"
          /\ exc' = exc
       \/ RaiseInner(HostErrorIn(IF d = "X" THEN "overrides X" ELSE "overrides Y"))
          /\ doc' = doc
    /\ UNCHANGED <<active_view, section_types, doc0, tx, txSnap, p1, prompts, alerts, exit>>
    /\ UNCHANGED perpIdle

\* lines 102-103: the two calls
create_ortho_section == \E d \in {"X", "Y"} : OrthoType(d) \/ OrthoCreate(d) \/ OrthoSet(d)

\* line 104
PerpCommit ==
    /\ pc = "PerpCommit"
    /\ \/ CommitTx("t") /\ pc' = "End" /\ exit' = "return" /\ exc' = exc
       \/ RaiseInner(HostErrorIn("t.Commit")) /\ UNCHANGED <<tx, exit>>
    /\ UNCHANGED <<active_view, section_types, doc, doc0, txSnap, p1, prompts, alerts>>
    /\ UNCHANGED perpIdle

\* mutant: the handler commits what was created so far
PerpHandler_Commits ==
    /\ pc = "PerpHandler"
    /\ CommitTx("t")
    /\ alerts' = Append(alerts, Alert("Transaction failed and was rolled back. Error: {}", exc.text))
    /\ pc' = "End"
    /\ exit' = "return"
    /\ UNCHANGED <<active_view, section_types, doc, doc0, txSnap, p1, prompts, exc>>
    /\ UNCHANGED perpIdle

\* lines 105-108: t.RollBack() and the printed line (kept with the alerts).
\* Should RollBack() itself raise, the with block disposes t, which rolls it
\* back, and the except of line 110 swallows the exception
PerpHandler ==
    /\ pc = "PerpHandler"
    /\ tx' = [tx EXCEPT !["t"] = "RolledBack"]
    /\ doc' = txSnap
    /\ \/ alerts' = Append(alerts, Alert("Transaction failed and was rolled back. Error: {}", exc.text))
       \/ alerts' = alerts
    /\ pc' = "End"
    /\ exit' = "return"
    /\ UNCHANGED <<active_view, section_types, doc0, txSnap, p1, prompts, exc>>
    /\ UNCHANGED perpIdle

\* lines 110-112: pass
PerpOuter ==
    /\ pc = "PerpOuter"
    /\ pc' = "End"
    /\ exit' = "return"
    /\ UNCHANGED <<active_view, section_types, doc, doc0, tx, txSnap, p1, prompts, alerts, exc>>
    /\ UNCHANGED perpIdle

NextPerp ==
    \/ PerpCheck \/ PerpPick \/ PerpStart \/ create_ortho_section \/ PerpCommit
    \/ PerpHandler \/ PerpOuter

SpecPerp == InitPerp /\ [][NextPerp]_vars

(***************************************************************************)
(* C24: the two perpendicular sections are created together or not at all  *)
(***************************************************************************)
\* the section views the run has added to the document
OrthoViews == {v.id : v \in doc.views \ doc0.views}

\* C24: the two sections are created atomically: outside the open
\* transaction, and so after the run, either both section views exist or
\* neither does, whatever step of either creation failed; and if the pick is
\* cancelled no transaction is started and the document is unchanged
C24_BothSectionsOrNeither ==
    /\ Ended => tx["t"] # "Started"
    /\ tx["t"] # "Started" => OrthoViews \in {{}, {"ortho_X", "ortho_Y"}}
    /\ tx["t"] = "Committed" => OrthoViews = {"ortho_X", "ortho_Y"}
    /\ exc.type = "OperationCanceledException" => (tx["t"] = "NotStarted" /\ doc = doc0)

\* the second creation failed after the first section existed, and the run
\* ended with neither
C24_Witness ==
    /\ Ended
    /\ exc = HostErrorIn("CreateSection Y")
    /\ tx["t"] = "RolledBack"
    /\ OrthoViews = {}

(***************************************************************************)
(* Section.panel/iSpy.pushbutton/script.py: run_zoom_sequence.  doc holds  *)
(* the crop flags of the active view and the undo entries; callOut counts  *)
(* the calls of ZoomToFit; t_on and t_off are the two Start/Commit cycles  *)
(* of the one Transaction object t (lines 25-28 and 39-42)                 *)
(***************************************************************************)
spyIdle == <<levels, section_types, temp_ids_to_delete, p1, p2, p3, bbox, depth_raw,
             prompts, snapIn, snapOut, callIn, win, handler, pending, sent, events>>

InitSpy ==
    /\ pc = "SpyCheck"
    /\ active_view \in [ViewType : {"Section", "FloorPlan", "ThreeD"}, GenLevel : {0}]
    /\ doc \in [CropBoxActive : BOOLEAN, CropBoxVisible : BOOLEAN, undo : {<<>>}]
    /\ doc0 = doc
    /\ tg = "NotStarted"
    /\ tgSnap = doc
    /\ tx = [t \in {"t_on", "t_off"} |-> "NotStarted"]
    /\ txSnap = doc
    /\ alerts = <<>>
    /\ exc = NoException
    /\ exit = "running"
    /\ callOut = 0
    /\ levels = <<0>>
    /\ section_types = <<>>
    /\ temp_ids_to_delete = <<>>
    /\ p1 = NoPoint /\ p2 = NoPoint /\ p3 = NoPoint
    /\ bbox = NoBox
    /\ depth_raw = Scalar(0, 1)
    /\ prompts = <<>>
    /\ snapIn = NoSnap
    /\ snapOut = NoPoint
    /\ callIn = NoCall
    /\ NoUi

\* lines 14-16: in another view an alert and a plain return
SpyCheck ==
    /\ pc = "SpyCheck"
    /\ IF active_view.ViewType # "Section"
         THEN /\ alerts' = Append(alerts, Alert("Please use this tool in a Section view.", ""))
              /\ pc' = "End"
              /\ exit' = "return"
         ELSE /\ pc' = "SpyGroup"
              /\ UNCHANGED <<alerts, exit>>
    /\ UNCHANGED <<active_view, doc, doc0, tg, tgSnap, tx, txSnap, exc, callOut>>
    /\ UNCHANGED spyIdle

\* lines 19-20: tg.Start() stands before the try
SpyGroup ==
    /\ pc = "SpyGroup"
    /\ \/ /\ tg' = "Started"
          /\ tgSnap' = doc
          /\ pc' = "SpyStartOn"
          /\ UNCHANGED <<exc, exit>>
       \/ /\ exc' = HostErrorIn("tg.Start")
          /\ exit' = "raise"
          /\ pc' = "End"
          /\ UNCHANGED <<tg, tgSnap>>
    /\ UNCHANGED <<active_view, doc, doc0, tx, txSnap, alerts, callOut>>
    /\ UNCHANGED spyIdle

\* an exception inside the try of line 22 reaches the except of line 47
RaiseSpy(e) == pc' = "SpyHandler" /\ exc' = e

\* t.Start(), lines 25 and 39
SpyStart(t, here, next) ==
    /\ pc = here
    /\ \/ StartTx(t) /\ pc' = next /\ exc' = exc
       \/ RaiseSpy(HostErrorIn("t.Start")) /\ UNCHANGED <<tx, txSnap>>
    /\ UNCHANGED <<active_view, doc, doc0, tg, tgSnap, alerts, exit, callOut>>
    /\ UNCHANGED spyIdle

\* the two assignments of lines 26-27 and of lines 40-41; either may raise,
\* the second after the first has taken effect
SpyCrop(b, here, next) ==
    /\ pc = here
    /\ \/ /\ doc' = [doc EXCEPT !.CropBoxActive = b, !.CropBoxVisible = b]
          /\ pc' = next
          /\ exc' = exc
       \/ /\ doc' = doc
          /\ RaiseSpy(HostErrorIn("CropBoxActive"))
       \/ /\ doc' = [doc EXCEPT !.CropBoxActive = b]
          /\ RaiseSpy(HostErrorIn("CropBoxVisible"))
    /\ UNCHANGED <<active_view, doc0, tg, tgSnap, tx, txSnap, alerts, exit, callOut>>
    /\ UNCHANGED spyIdle

\* t.Commit(), lines 28 and 42: a committed transaction is an undo entry
SpyCommit(t, here, next) ==
    /\ pc = here
    /\ \/ /\ CommitTx(t)
          /\ doc' = [doc EXCEPT !.undo = Append(@, "Enable Crop")]
          /\ pc' = next
          /\ exc' = exc
       \/ RaiseSpy(HostErrorIn("t.Commit")) /\ UNCHANGED <<tx, doc>>
    /\ UNCHANGED <<active_view, doc0, tg, tgSnap, txSnap, alerts, exit, callOut>>
    /\ UNCHANGED spyIdle

SpyStartOn == SpyStart("t_on", "SpyStartOn", "SpyCropOn")

SpyCropOn == SpyCrop(TRUE, "SpyCropOn", "SpyCommitOn")

SpyCommitOn == SpyCommit("t_on", "SpyCommitOn", "SpyZoom")

\* lines 32-36: ZoomToFit on the open UI view of the active view, if there
\* is one; GetOpenUIViews or ZoomToFit may raise
SpyZoom ==
    /\ pc = "SpyZoom"
    /\ \/ /\ callOut' \in {callOut, callOut + 1}
          /\ pc' = "SpyStartOff"
          /\ exc' = exc
       \/ /\ RaiseSpy(HostErrorIn("ZoomToFit"))
          /\ callOut' = callOut
    /\ UNCHANGED <<active_view, doc, doc0, tg, tgSnap, tx, txSnap, alerts, exit>>
    /\ UNCHANGED spyIdle

SpyStartOff == SpyStart("t_off", "SpyStartOff", "SpyCropOff")

\* mutant: the crop region is left visible
SpyCropOff_LeavesVisible ==
    /\ pc = "SpyCropOff"
    /\ doc' = [doc EXCEPT !.CropBoxActive = FALSE, !.CropBoxVisible = TRUE]
    /\ pc' = "SpyCommitOff"
    /\ UNCHANGED <<active_view, doc0, tg, tgSnap, tx, txSnap, alerts, exit, callOut, exc>>
    /\ UNCHANGED spyIdle

SpyCropOff == SpyCrop(FALSE, "SpyCropOff", "SpyCommitOff")

SpyCommitOff == SpyCommit("t_off", "SpyCommitOff", "SpyAssimilate")

\* line 45: the entries made since tg.Start() become one entry
SpyAssimilate ==
    /\ pc = "SpyAssimilate"
    /\ \/ /\ tg' = "Assimilated"
          /\ doc' = [doc EXCEPT !.undo = Append(tgSnap.undo, "Section Zoom & Crop Sequence")]
          /\ pc' = "End"
          /\ exit' = "return"
          /\ exc' = exc
       \/ /\ RaiseSpy(HostErrorIn("tg.Assimilate"))
          /\ UNCHANGED <<tg, doc, exit>>
    /\ UNCHANGED <<active_view, doc0, tgSnap, tx, txSnap, alerts, callOut>>
    /\ UNCHANGED spyIdle

\* lines 47-51.  tg.RollBack() is called whatever the state of t; with t
\* still started the call either is refused (the exception leaves the
\* handler, nothing is undone, no alert is shown) or undoes the open
\* transaction together with the group
SpyHandler ==
    /\ pc = "SpyHandler"
    /\ \/ /\ IF tg = "Started" THEN RollBackGroup ELSE UNCHANGED <<tg, doc>>
          /\ tx' = [t \in DOMAIN tx |-> IF tx[t] = "Started" THEN "RolledBack" ELSE tx[t]]
          /\ alerts' = Append(alerts, Alert("An error occurred during the sequence:\n\n{}", exc.text))
          /\ exit' = "return"
       \/ /\ tg = "Started"
          /\ OpenTx # {}
          /\ exit' = "raise"
          /\ UNCHANGED <<tg, doc, tx, alerts>>
    /\ pc' = "End"
    /\ UNCHANGED <<active_view, doc0, tgSnap, txSnap, exc, callOut>>
    /\ UNCHANGED spyIdle

run_zoom_sequence ==
    \/ SpyCheck \/ SpyGroup \/ SpyStartOn \/ SpyCropOn \/ SpyCommitOn \/ SpyZoom
    \/ SpyStartOff \/ SpyCropOff \/ SpyCommitOff \/ SpyAssimilate \/ SpyHandler

SpecSpy == InitSpy /\ [][run_zoom_sequence]_vars

(***************************************************************************)
(* C25, C26: the zoom sequence                                             *)
(***************************************************************************)
\* a step inside the try failed, that is after the group was started
SpyFailed == exc.type = "HostError" /\ exc.text # "tg.Start"

\* C25: if any step fails after the transaction group was started, the
\* model is reverted: after the run CropBoxActive and CropBoxVisible of the
\* active view have the values they had before it
C25_FailureRevertsCrop ==
    (Ended /\ SpyFailed) =>
        /\ doc.CropBoxActive = doc0.CropBoxActive
        /\ doc.CropBoxVisible = doc0.CropBoxVisible

\* C26: ZoomToFit is called only after the crop-on transaction is committed
\* and before the crop-off transaction is started; a successful run ends
\* with both crop flags false and its two transactions merged into one undo
\* entry; in a view that is no section no transaction group is started
C26_ZoomBetweenTransactions ==
    /\ [][callOut' # callOut =>
            /\ tx["t_on"] = "Committed" /\ tx["t_off"] = "NotStarted"
            /\ tx' = tx]_vars
    /\ [](/\ tx["t_off"] # "NotStarted" => tx["t_on"] = "Committed"
          /\ (Ended /\ tg = "Assimilated") =>
                /\ ~doc.CropBoxActive /\ ~doc.CropBoxVisible
                /\ doc.undo = Append(doc0.undo, "Section Zoom & Crop Sequence")
                /\ OpenTx = {}
          /\ (Ended /\ exit = "return" /\ exc = NoException
                /\ active_view.ViewType = "Section") => tg = "Assimilated"
          /\ active_view.ViewType # "Section" => (tg = "NotStarted" /\ doc = doc0))

\* a run that started with the crop region on, zoomed, and ended merged
C26_Witness ==
    /\ Ended /\ tg = "Assimilated"
    /\ doc0.CropBoxActive /\ doc0.CropBoxVisible
    /\ callOut = 1
    /\ ~doc.CropBoxActive /\ ~doc.CropBoxVisible

(***************************************************************************)
(* Point Clouds.panel/Toggle.pushbutton/script.py: toggle_point_clouds,    *)
(* run up to MaxRuns times on one document.  doc holds the hidden flag of  *)
(* the point-cloud category in the active view, the number of point clouds *)
(* and the undo entries, each the flag a committed run replaced; doc0 is   *)
(* the document when the button was pressed; callOut holds is_hidden;      *)
(* events counts the runs                                                  *)
(***************************************************************************)
MaxRuns == 3

toggleIdle == <<active_view, levels, section_types, tg, tgSnap, temp_ids_to_delete, p1, p2, p3,
                bbox, depth_raw, prompts, snapIn, snapOut, callIn, win, handler, pending, sent>>

InitToggle ==
    /\ pc = "ToggleCheck"
    /\ doc \in [hidden : BOOLEAN, clouds : 0..2, undo : {<<>>}]
    /\ doc0 = doc
    /\ tx = [t \in {"t"} |-> "NotStarted"]
    /\ txSnap = doc
    /\ alerts = <<>>
    /\ exc = NoException
    /\ exit = "running"
    /\ callOut = FALSE
    /\ active_view = [ViewType |-> "FloorPlan", GenLevel |-> 1]
    /\ levels = <<0>>
    /\ section_types = <<>>
    /\ tg = "NotStarted"
    /\ tgSnap = doc
    /\ temp_ids_to_delete = <<>>
    /\ p1 = NoPoint /\ p2 = NoPoint /\ p3 = NoPoint
    /\ bbox = NoBox
    /\ depth_raw = Scalar(0, 1)
    /\ prompts = <<>>
    /\ snapIn = NoSnap
    /\ snapOut = NoPoint
    /\ callIn = NoCall
    /\ win = NoWindow /\ handler = NoHandler /\ pending = FALSE /\ sent = NoRange
    /\ events = 1

\* an exception outside the try of line 28 leaves the function
ToggleEscapes(e) == pc' = "End" /\ exit' = "raise" /\ exc' = e

\* lines 14-18: without point clouds an alert and a plain return
ToggleCheck ==
    /\ pc = "ToggleCheck"
    /\ IF doc.clouds = 0
         THEN /\ alerts' = Append(alerts, Alert("No point clouds found in this project.", ""))
              /\ pc' = "End"
              /\ exit' = "return"
         ELSE /\ pc' = "ToggleRead"
              /\ UNCHANGED <<alerts, exit>>
    /\ UNCHANGED <<doc, doc0, tx, txSnap, exc, callOut, events>>
    /\ UNCHANGED toggleIdle

\* lines 22-23: is_hidden = view.GetCategoryHidden(category_id)
ToggleRead ==
    /\ pc = "ToggleRead"
    /\ \/ /\ callOut' = doc.hidden
          /\ pc' = "ToggleStart"
          /\ UNCHANGED <<exit, exc>>
       \/ /\ ToggleEscapes(HostErrorIn("GetCategoryHidden"))
          /\ callOut' = callOut
    /\ UNCHANGED <<doc, doc0, tx, txSnap, alerts, events>>
    /\ UNCHANGED toggleIdle

\* lines 26-27
ToggleStart ==
    /\ pc = "ToggleStart"
    /\ \/ /\ StartTx("t")
          /\ pc' = "ToggleSet"
          /\ UNCHANGED <<exit, exc>>
       \/ /\ ToggleEscapes(HostErrorIn("t.Start"))
          /\ UNCHANGED <<tx, txSnap>>
    /\ UNCHANGED <<doc, doc0, alerts, callOut, events>>
    /\ UNCHANGED toggleIdle

\* an exception inside the try of line 28 reaches the except of line 32
RaiseToggle(e) == pc' = "ToggleHandler" /\ exc' = e

\* mutant: the flag is set to the value read
ToggleSet_SameValue ==
    /\ pc = "ToggleSet"
    /\ doc' = [doc EXCEPT !.hidden = callOut]
    /\ pc' = "ToggleCommit"
    /\ UNCHANGED <<doc0, tx, txSnap, alerts, exit, callOut, events, exc>>
    /\ UNCHANGED toggleIdle

\* line 30: view.SetCategoryHidden(category_id, not is_hidden)
ToggleSet ==
    /\ pc = "ToggleSet"
    /\ \/ /\ doc' = [doc EXCEPT !.hidden = ~callOut]
          /\ pc' = "ToggleCommit"
          /\ exc' = exc
       \/ /\ RaiseToggle(HostErrorIn("SetCategoryHidden"))
          /\ doc' = doc
    /\ UNCHANGED <<doc0, tx, txSnap, alerts, exit, callOut, events>>
    /\ UNCHANGED toggleIdle

\* line 31: the committed transaction is an undo entry
ToggleCommit ==
    /\ pc = "ToggleCommit"
    /\ \/ /\ CommitTx("t")
          /\ doc' = [doc EXCEPT !.undo = Append(@, txSnap.hidden)]
          /\ pc' = "End"
          /\ exit' = "return"
          /\ exc' = exc
       \/ /\ RaiseToggle(HostErrorIn("t.Commit"))
          /\ UNCHANGED <<tx, doc, exit>>
    /\ UNCHANGED <<doc0, txSnap, alerts, callOut, events>>
    /\ UNCHANGED toggleIdle

\* lines 32-34
ToggleHandler ==
    /\ pc = "ToggleHandler"
    /\ tx' = [tx EXCEPT !["t"] = "RolledBack"]
    /\ doc' = txSnap
    /\ alerts' = Append(alerts, Alert("Failed to toggle: {}", exc.text))
    /\ pc' = "End"
    /\ exit' = "return"
    /\ UNCHANGED <<doc0, txSnap, exc, callOut, events>>
    /\ UNCHANGED toggleIdle

\* the button is pressed again: the script runs anew on the document as the
\* last run left it
ToggleAgain ==
    /\ pc = "End"
    /\ events < MaxRuns
    /\ events' = events + 1
    /\ pc' = "ToggleCheck"
    /\ doc0' = doc
    /\ tx' = [t \in {"t"} |-> "NotStarted"]
    /\ alerts' = <<>>
    /\ exc' = NoException
    /\ exit' = "running"
    /\ UNCHANGED <<doc, txSnap, callOut>>
    /\ UNCHANGED toggleIdle

toggle_point_clouds ==
    \/ ToggleCheck \/ ToggleRead \/ ToggleStart \/ ToggleSet \/ ToggleCommit \/ ToggleHandler

NextToggle == toggle_point_clouds \/ ToggleAgain

SpecToggle == InitToggle /\ [][NextToggle]_vars

(***************************************************************************)
(* C27: the point-cloud toggle                                             *)
(***************************************************************************)
\* C27: a successful run flips the hidden flag of the point-cloud category
\* in the active view, so the second of two successful runs restores the
\* visibility the first one found; without point clouds no transaction is
\* started; when setting the flag fails the transaction is rolled back and
\* the visibility is unchanged
C27_ToggleFlips ==
    /\ doc.clouds = 0 => (tx["t"] = "NotStarted" /\ doc = doc0)
    /\ (Ended /\ tx["t"] = "Committed") =>
          /\ doc.hidden = ~doc0.hidden
          /\ Len(doc.undo) >= 2 => doc.hidden = doc.undo[Len(doc.undo) - 1]
    /\ (Ended /\ tx["t"] # "Committed") => doc = doc0
    /\ (Ended /\ exc = HostErrorIn("SetCategoryHidden")) =>
          /\ tx["t"] = "RolledBack"
          /\ doc.hidden = doc0.hidden

\* a second successful run, after which the category is visible as before
C27_Witness ==
    /\ Ended /\ tx["t"] = "Committed"
    /\ events = 2
    /\ Len(doc.undo) = 2
    /\ doc.hidden = doc.undo[1]
    /\ doc.hidden # doc0.hidden

(***************************************************************************)
(* View Range.panel/Slider.pushbutton/script.py: BurgerWindow and          *)
(* ViewRangeHandler.  win holds the window's cut_mm, top_thick, bot_thick  *)
(* (millimetres) and the thumb being dragged; handler holds the fields of  *)
(* the event handler; pending says that the external event is raised and   *)
(* not yet executed; sent holds the offsets last given to vr.SetOffset;    *)
(* doc holds the view range of the plan view; events counts the UI events. *)
(* Pixel values are kept as hundredths of a pixel, raw millimetre values   *)
(* as sevenths of a millimetre, offsets in feet as numerators over 3048    *)
(***************************************************************************)
MaxEvents == 4

MIN_THICKNESS == 10

MAX_RANGE_MM == 4000

MIN_RANGE_MM == -1000

CANVAS_HEIGHT == 350

\* e.VerticalChange of one DragDelta event, in pixels
Drags == {-42, -1, 1, 42}

\* the nearest integer of n / d, d > 0; halves away from zero
RoundDiv(n, d) ==
    IF n >= 0 THEN (2 * n + d) \div (2 * d)
    ELSE -((2 * (-n) + d) \div (2 * d))

\* lines 117-119: round(val / 5.0) * 5.0, for val = val7 / 7
snap_to_5(val7) == 5 * RoundDiv(val7, 35)

\* lines 121-126, in hundredths of a pixel:
\* CANVAS_HEIGHT * (1 - (mm_val - lo) / (hi - lo))
mm_to_px(mm_val, lo, hi) == (hi - mm_val) * ((CANVAS_HEIGHT * 100) \div (hi - lo))

\* lines 128-132, from hundredths of a pixel to sevenths of a millimetre:
\* lo + (1 - px_val / CANVAS_HEIGHT) * (hi - lo)
px_to_mm(px_val, lo, hi) == 7 * hi - (px_val * (((hi - lo) * 7) \div CANVAS_HEIGHT)) \div 100

\* UnitUtils.ConvertToInternalUnits(mm, UnitTypeId.Millimeters): mm / 304.8
\* feet, as the numerator over 3048
ConvertToInternalUnits(mm) == 10 * mm

sliderIdle == <<pc, levels, section_types, doc0, tg, tgSnap, txSnap, temp_ids_to_delete, p1, p2, p3,
                bbox, depth_raw, prompts, alerts, exc, exit, snapIn, snapOut, callIn, callOut>>

\* the fields the tools leave alone, as InitSlider and the other windows set them
IdleSession ==
    /\ levels = <<0>>
    /\ section_types = <<>>
    /\ tg = "NotStarted"
    /\ temp_ids_to_delete = <<>>
    /\ p1 = NoPoint /\ p2 = NoPoint /\ p3 = NoPoint
    /\ bbox = NoBox
    /\ depth_raw = Scalar(0, 1)
    /\ prompts = <<>>
    /\ alerts = <<>>
    /\ exc = NoException
    /\ exit = "running"
    /\ snapIn = NoSnap
    /\ snapOut = NoPoint
    /\ callIn = NoCall
    /\ callOut = 0

\* the view range of a plan view before the tool is used
DefaultRange ==
    [top |-> ConvertToInternalUnits(2300), cut |-> ConvertToInternalUnits(1200),
     bottom |-> 0, depth |-> 0]

\* lines 18-21, 79-87 and 259-262: the window opens on a plan view
InitSlider ==
    /\ pc = "BurgerWindow"
    /\ active_view = [ViewType |-> "FloorPlan", GenLevel |-> 1]
    /\ win = [cut_mm |-> 1200, top_thick |-> 600, bot_thick |-> 600, dragging |-> "none"]
    /\ handler = [cut_mm |-> 1200, top_offset_mm |-> 600, bot_offset_mm |-> 600]
    /\ pending = FALSE
    /\ sent = NoRange
    /\ events = 0
    /\ doc = [range |-> DefaultRange]
    /\ doc0 = doc
    /\ tgSnap = doc
    /\ txSnap = doc
    /\ tx = [t \in {"t"} |-> "NotStarted"]
    /\ IdleSession

\* a DragDelta event of the thumb: one more UI event, the thumb is held
DragDelta(thumb, w) ==
    /\ pc = "BurgerWindow"
    /\ events < MaxEvents
    /\ win.dragging \in {"none", thumb}
    /\ events' = events + 1
    /\ win' = [w EXCEPT !.dragging = thumb]

\* mutant: the cut drag hands its value to the handler at once
on_cut_drag_Triggers ==
    /\ \E dy \in Drags :
          DragDelta("CutThumb", [win EXCEPT !.cut_mm =
              snap_to_5(7 * win.cut_mm - (dy * (MAX_RANGE_MM - MIN_RANGE_MM) * 7) \div CANVAS_HEIGHT)])
    /\ handler' = [handler EXCEPT !.cut_mm = win'.cut_mm]
    /\ pending' = TRUE
    /\ UNCHANGED <<active_view, sent, doc, tx>>
    /\ UNCHANGED sliderIdle

\* lines 191-195: delta_mm = -(dy / CANVAS_HEIGHT) * (MAX_RANGE_MM - MIN_RANGE_MM)
on_cut_drag ==
    /\ \E dy \in Drags :
          DragDelta("CutThumb", [win EXCEPT !.cut_mm =
              snap_to_5(7 * win.cut_mm - (dy * (MAX_RANGE_MM - MIN_RANGE_MM) * 7) \div CANVAS_HEIGHT)])
    /\ UNCHANGED <<active_view, handler, pending, sent, doc, tx>>
    /\ UNCHANGED sliderIdle

\* mutant: no minimum of the thickness
AtLeastMinThickness_Off(new_thick) == new_thick

\* lines 206 and 218: if new_thick < self.MIN_THICKNESS: new_thick = self.MIN_THICKNESS
AtLeastMinThickness(new_thick) == IF new_thick < MIN_THICKNESS THEN MIN_THICKNESS ELSE new_thick

\* lines 197-208
on_top_drag ==
    /\ \E dy \in Drags :
          LET tip_px == mm_to_px(win.cut_mm + win.top_thick, MIN_RANGE_MM, MAX_RANGE_MM)
              new_tip_px == tip_px + 100 * dy
              new_abs == px_to_mm(new_tip_px, MIN_RANGE_MM, MAX_RANGE_MM)
              raw_thick == new_abs - 7 * win.cut_mm
              new_thick == snap_to_5(raw_thick)
          IN  DragDelta("TopThumb", [win EXCEPT !.top_thick = AtLeastMinThickness(new_thick)])
    /\ UNCHANGED <<active_view, handler, pending, sent, doc, tx>>
    /\ UNCHANGED sliderIdle

\* lines 210-220
on_bot_drag ==
    /\ \E dy \in Drags :
          LET tip_px == mm_to_px(win.cut_mm - win.bot_thick, MIN_RANGE_MM, MAX_RANGE_MM)
              new_tip_px == tip_px + 100 * dy
              new_abs == px_to_mm(new_tip_px, MIN_RANGE_MM, MAX_RANGE_MM)
              raw_thick == 7 * win.cut_mm - new_abs
              new_thick == snap_to_5(raw_thick)
          IN  DragDelta("BotThumb", [win EXCEPT !.bot_thick = AtLeastMinThickness(new_thick)])
    /\ UNCHANGED <<active_view, handler, pending, sent, doc, tx>>
    /\ UNCHANGED sliderIdle

\* lines 253-257, for the window state w; Raise() on a pending event changes nothing
trigger_revit(w) ==
    /\ handler' = [cut_mm |-> w.cut_mm, top_offset_mm |-> w.top_thick, bot_offset_mm |-> w.bot_thick]
    /\ pending' = TRUE

\* lines 99-101: DragCompleted of the thumb that was dragged
DragCompleted ==
    /\ pc = "BurgerWindow"
    /\ events < MaxEvents
    /\ win.dragging # "none"
    /\ events' = events + 1
    /\ win' = [win EXCEPT !.dragging = "none"]
    /\ trigger_revit(win)
    /\ UNCHANGED <<active_view, sent, doc, tx>>
    /\ UNCHANGED sliderIdle

\* lines 223-229: the Reset button
reset_defaults ==
    /\ pc = "BurgerWindow"
    /\ events < MaxEvents
    /\ win.dragging = "none"
    /\ events' = events + 1
    /\ win' = [win EXCEPT !.cut_mm = 1500, !.top_thick = 100, !.bot_thick = 100]
    /\ trigger_revit(win')
    /\ UNCHANGED <<active_view, sent, doc, tx>>
    /\ UNCHANGED sliderIdle

\* lines 29-36
Offsets(h) ==
    LET cut_abs == h.cut_mm
        top_abs == h.cut_mm + h.top_offset_mm
        bot_abs == h.cut_mm - h.bot_offset_mm
        bot_ft == ConvertToInternalUnits(bot_abs)
    IN  [top |-> ConvertToInternalUnits(top_abs),
         cut |-> ConvertToInternalUnits(cut_abs),
         bottom |-> bot_ft,
         depth |-> bot_ft - ConvertToInternalUnits(100)]

\* lines 23-63: the host runs the raised event.  The active view is read
\* when it runs; an exception (a view without a level or a view range, a
\* call the host refuses) is swallowed at line 62 and the with block of
\* line 38 rolls a started transaction back
Execute ==
    /\ pc = "BurgerWindow"
    /\ pending
    /\ pending' = FALSE
    /\ \E view \in {[ViewType |-> "FloorPlan", GenLevel |-> 1], [ViewType |-> "Section", GenLevel |-> 0]} :
         /\ active_view' = view
         /\ \/ /\ UNCHANGED <<tx, sent, doc>>
            \/ /\ view.GenLevel = 0
               /\ tx' = [tx EXCEPT !["t"] = "RolledBack"]
               /\ UNCHANGED <<sent, doc>>
            \/ /\ view.GenLevel # 0
               /\ sent' = Offsets(handler)
               /\ \/ /\ tx' = [tx EXCEPT !["t"] = "RolledBack"]
                     /\ doc' = doc
                  \/ /\ tx' = [tx EXCEPT !["t"] = "Committed"]
                     /\ doc' = [doc EXCEPT !.range = sent']
    /\ UNCHANGED <<win, handler, events>>
    /\ UNCHANGED sliderIdle

NextSlider ==
    \/ on_cut_drag \/ on_top_drag \/ on_bot_drag \/ DragCompleted \/ reset_defaults \/ Execute

SpecSlider == InitSlider /\ [][NextSlider]_vars

(***************************************************************************)
(* C30: the floor-plan slider                                              *)
(***************************************************************************)
\* C30: after any sequence of cut, top and bottom drags and resets,
\* top_thick and bot_thick are each at least MIN_THICKNESS (10 mm), and
\* every set of offsets the handler sends satisfies
\* top > cut > bottom > view depth
C30_ThicknessAndOrder ==
    /\ win.top_thick >= 10
    /\ win.bot_thick >= 10
    /\ sent # NoRange => (sent.top > sent.cut /\ sent.cut > sent.bottom /\ sent.bottom > sent.depth)

\* the top thumb was dragged down past the cut plane and the offsets sent
\* have the top plane the minimum above the cut plane
C30_Witness ==
    /\ win.top_thick = 10
    /\ sent # NoRange
    /\ sent.top = sent.cut + 100
    /\ tx["t"] = "Committed"

(***************************************************************************)
(* View Range.panel/RCP.pushbutton/script.py: BurgerWindowRCP and          *)
(* RCPRangeHandler, in the same variables as BurgerWindow; the bottom of   *)
(* the range is the level itself and the bottom thumb moves the cut plane  *)
(***************************************************************************)
RCP_MAX_RANGE_MM == 5000

RCP_MIN_RANGE_MM == 0

\* UnitUtils.ConvertFromInternalUnits(ft, UnitTypeId.Millimeters) of an
\* offset given as a numerator over 3048; the offsets of RcpRanges are whole
\* millimetres
ConvertFromInternalUnits(ft) == ft \div 10

\* view ranges a ceiling plan may have when the window opens
RcpRanges ==
    {[top |-> ConvertToInternalUnits(t), cut |-> ConvertToInternalUnits(c), bottom |-> 0,
      depth |-> ConvertToInternalUnits(t)] : <<c, t>> \in {<<2300, 2900>>, <<1200, 1205>>, <<2500, 3000>>}}

\* lines 105-131: the window state read from the view, or the defaults of
\* lines 81-82 when reading fails
init_from_current_view(range) ==
    LET abs_cut == ConvertFromInternalUnits(range.cut)
        abs_top == ConvertFromInternalUnits(range.top)
        top_thick == abs_top - abs_cut
    IN  {[cut_mm |-> abs_cut,
          top_thick |-> IF top_thick < MIN_THICKNESS THEN MIN_THICKNESS ELSE top_thick,
          dragging |-> "none"],
         [cut_mm |-> 2300, top_thick |-> 600, dragging |-> "none"]}

\* lines 19-22, 68-103 and 247-256: the window opens on a ceiling plan
InitRCP ==
    /\ pc = "BurgerWindowRCP"
    /\ active_view = [ViewType |-> "CeilingPlan", GenLevel |-> 1]
    /\ levels \in {<<0>>, <<0, 300>>, <<0, 15>>}
    /\ doc \in [range : RcpRanges]
    /\ win \in init_from_current_view(doc.range)
    /\ handler = [cut_mm |-> 2300, top_offset_mm |-> 600, view_depth_mm |-> 0]
    /\ pending = FALSE
    /\ sent = NoRange
    /\ events = 0
    /\ doc0 = doc
    /\ tgSnap = doc
    /\ txSnap = doc
    /\ tx = [t \in {"t"} |-> "NotStarted"]
    /\ section_types = <<>>
    /\ tg = "NotStarted"
    /\ temp_ids_to_delete = <<>>
    /\ p1 = NoPoint /\ p2 = NoPoint /\ p3 = NoPoint
    /\ bbox = NoBox
    /\ depth_raw = Scalar(0, 1)
    /\ prompts = <<>>
    /\ alerts = <<>>
    /\ exc = NoException
    /\ exit = "running"
    /\ snapIn = NoSnap
    /\ snapOut = NoPoint
    /\ callIn = NoCall
    /\ callOut = 0

\* a DragDelta event of the thumb in the RCP window
RCP_DragDelta(thumb, w) ==
    /\ pc = "BurgerWindowRCP"
    /\ events < MaxEvents
    /\ win.dragging \in {"none", thumb}
    /\ events' = events + 1
    /\ win' = [w EXCEPT !.dragging = thumb]
    /\ UNCHANGED <<active_view, handler, pending, sent, doc, tx>>
    /\ UNCHANGED sliderIdle

\* lines 175-178
RCP_on_cut_drag ==
    \E dy \in Drags :
        RCP_DragDelta("CutThumb", [win EXCEPT !.cut_mm =
            snap_to_5(7 * win.cut_mm - (dy * (RCP_MAX_RANGE_MM - RCP_MIN_RANGE_MM) * 7) \div CANVAS_HEIGHT)])

\* max(a, b) of lines 183 and 189
Max(a, b) == IF a >= b THEN a ELSE b

\* lines 180-184
RCP_on_top_drag ==
    \E dy \in Drags :
        LET new_abs == px_to_mm(mm_to_px(win.cut_mm + win.top_thick, RCP_MIN_RANGE_MM, RCP_MAX_RANGE_MM)
                                  + 100 * dy, RCP_MIN_RANGE_MM, RCP_MAX_RANGE_MM)
        IN  RCP_DragDelta("TopThumb", [win EXCEPT !.top_thick =
                Max(MIN_THICKNESS, snap_to_5(new_abs - 7 * win.cut_mm))])

\* lines 186-190: the bottom thumb moves the cut plane
RCP_on_bot_drag ==
    \E dy \in Drags :
        LET new_abs == px_to_mm(mm_to_px(win.cut_mm, RCP_MIN_RANGE_MM, RCP_MAX_RANGE_MM)
                                  + 100 * dy, RCP_MIN_RANGE_MM, RCP_MAX_RANGE_MM)
        IN  RCP_DragDelta("BotThumb", [win EXCEPT !.cut_mm = Max(MIN_THICKNESS, snap_to_5(new_abs))])

\* lines 242-245, for the window state w; view_depth_mm is never set
RCP_trigger_revit(w) ==
    /\ handler' = [handler EXCEPT !.cut_mm = w.cut_mm, !.top_offset_mm = w.top_thick]
    /\ pending' = TRUE

\* lines 97-99
RCP_DragCompleted ==
    /\ pc = "BurgerWindowRCP"
    /\ events < MaxEvents
    /\ win.dragging # "none"
    /\ events' = events + 1
    /\ win' = [win EXCEPT !.dragging = "none"]
    /\ RCP_trigger_revit(win)
    /\ UNCHANGED <<active_view, sent, doc, tx>>
    /\ UNCHANGED sliderIdle

\* lines 193-208: the height of the next level above the view's level, in
\* millimetres, 0 for None; elevations are in units of SessionGrid tenths of
\* a millimetre, so that a level above by one unit is above the tolerance
get_upper_level_delta(lv, curr_level) ==
    LET above == {i \in 1..Len(lv) : lv[i] > lv[curr_level]}
        lvl == CHOOSE i \in above : \A k \in above : lv[i] <= lv[k]
    IN  IF curr_level = 0 \/ above = {} THEN 0
        ELSE ((lv[lvl] - lv[curr_level]) * SessionGrid) \div 10

\* lines 210-225
RCP_reset_defaults ==
    /\ pc = "BurgerWindowRCP"
    /\ events < MaxEvents
    /\ win.dragging = "none"
    /\ events' = events + 1
    /\ LET upper_level_mm == get_upper_level_delta(levels, active_view.GenLevel)
       IN  IF upper_level_mm # 0
             THEN win' = [win EXCEPT !.cut_mm = upper_level_mm - 200, !.top_thick = 200]
             ELSE win' = [win EXCEPT !.cut_mm = 2300, !.top_thick = 600]
    /\ RCP_trigger_revit(win')
    /\ UNCHANGED <<active_view, sent, doc, tx>>
    /\ UNCHANGED sliderIdle

\* lines 31-34
RCP_Offsets(h) ==
    LET top_ft == ConvertToInternalUnits(h.cut_mm + h.top_offset_mm)
    IN  [top |-> top_ft,
         cut |-> ConvertToInternalUnits(h.cut_mm),
         bottom |-> 0,
         depth |-> top_ft + ConvertToInternalUnits(h.view_depth_mm)]

\* lines 24-59, as Execute of ViewRangeHandler
RCP_Execute ==
    /\ pc = "BurgerWindowRCP"
    /\ pending
    /\ pending' = FALSE
    /\ \E view \in {[ViewType |-> "CeilingPlan", GenLevel |-> 1], [ViewType |-> "Section", GenLevel |-> 0]} :
         /\ active_view' = view
         /\ \/ /\ UNCHANGED <<tx, sent, doc>>
            \/ /\ view.GenLevel = 0
               /\ tx' = [tx EXCEPT !["t"] = "RolledBack"]
               /\ UNCHANGED <<sent, doc>>
            \/ /\ view.GenLevel # 0
               /\ sent' = RCP_Offsets(handler)
               /\ \/ /\ tx' = [tx EXCEPT !["t"] = "RolledBack"]
                     /\ doc' = doc
                  \/ /\ tx' = [tx EXCEPT !["t"] = "Committed"]
                     /\ doc' = [doc EXCEPT !.range = sent']
    /\ UNCHANGED <<win, handler, events>>
    /\ UNCHANGED sliderIdle

NextRCP ==
    \/ RCP_on_cut_drag \/ RCP_on_top_drag \/ RCP_on_bot_drag \/ RCP_DragCompleted
    \/ RCP_reset_defaults \/ RCP_Execute

SpecRCP == InitRCP /\ [][NextRCP]_vars

\* either window
SpecWindows == (InitSlider \/ InitRCP) /\ [][NextSlider \/ NextRCP]_vars

(***************************************************************************)
(* C28: what a drag changes                                                *)
(***************************************************************************)
\* a DragDelta event was handled
DragStep == events' = events + 1 /\ win'.dragging # "none"

\* C28: in BurgerWindow and BurgerWindowRCP a DragDelta event changes only
\* the window's own state: the handler's values, the raised event, the
\* offsets sent and the view range of the host are unchanged; the event is
\* raised and the handler's values change only on DragCompleted or Reset,
\* and the view range changes only when the raised event is executed
C28_DragChangesWindowOnly ==
    [][/\ DragStep => (/\ handler' = handler /\ pending' = pending /\ sent' = sent
                       /\ doc' = doc /\ tx' = tx /\ active_view' = active_view)
       /\ (handler' # handler \/ (pending' /\ ~pending)) =>
              (events' = events + 1 /\ win'.dragging = "none" /\ pending')
       /\ (doc' # doc \/ sent' # sent) => (pending /\ ~pending' /\ win' = win)]_vars

\* the RCP window in the middle of a drag: the window has moved on, the
\* handler still has the values of the last release and the view those sent
C28_Witness ==
    /\ pc = "BurgerWindowRCP"
    /\ win.dragging = "CutThumb"
    /\ sent # NoRange
    /\ doc.range = sent
    /\ win.cut_mm # handler.cut_mm
    /\ ~pending

(***************************************************************************)
(* script.py: LiveRangeWindow and ViewRangeUpdateHandler.  win holds the   *)
(* value of OffsetSlider, handler the field new_offset, both in whole      *)
(* feet; doc holds the view range of the plan view; tx is the transaction  *)
(* of the last Execute and exc the exception it printed; active_view is    *)
(* the view the last Execute found                                         *)
(***************************************************************************)
\* the values the slider can be moved to
SliderValues == -1..5

\* the view range of the plan view when the window opens
LiveRange == [top |-> 4, cut |-> 2, bottom |-> 0, depth |-> 0]

\* the host accepts a view range whose planes are in order
ValidRange(r) == r.top >= r.cut /\ r.cut >= r.bottom /\ r.bottom >= r.depth

\* lines 8-9, 37-48 and 59-63: the window opens on a plan view; setting the
\* slider at line 47 may already be a change of the slider
InitLive ==
    /\ pc = "LiveRangeWindow"
    /\ active_view = [ViewType |-> "FloorPlan", GenLevel |-> 1]
    /\ doc = [range |-> LiveRange]
    /\ win = [slider |-> doc.range.cut]
    /\ \/ handler = [new_offset |-> 0] /\ pending = FALSE /\ events = 0
       \/ handler = [new_offset |-> win.slider] /\ pending = TRUE /\ events = 1
    /\ sent = NoRange
    /\ doc0 = doc
    /\ tgSnap = doc
    /\ txSnap = doc
    /\ tx = [t \in {"t"} |-> "NotStarted"]
    /\ IdleSession

liveIdle == <<pc, levels, section_types, doc0, tg, tgSnap, txSnap, temp_ids_to_delete, p1, p2, p3,
              bbox, depth_raw, prompts, alerts, exit, snapIn, snapOut, callIn, callOut>>

\* mutant: the event is raised but the handler keeps its offset
on_slider_change_KeepsOffset ==
    /\ pc = "LiveRangeWindow"
    /\ events < MaxEvents
    /\ \E v \in SliderValues \ {win.slider} : win' = [win EXCEPT !.slider = v]
    /\ pending' = TRUE
    /\ events' = events + 1
    /\ UNCHANGED <<handler, active_view, doc, tx, sent, exc>>
    /\ UNCHANGED liveIdle

\* lines 50-56: the user moves the slider; Raise() on a pending event
\* changes nothing
on_slider_change ==
    /\ pc = "LiveRangeWindow"
    /\ events < MaxEvents
    /\ \E v \in SliderValues \ {win.slider} :
          /\ win' = [win EXCEPT !.slider = v]
          /\ handler' = [handler EXCEPT !.new_offset = v]
    /\ pending' = TRUE
    /\ events' = events + 1
    /\ UNCHANGED <<active_view, doc, tx, sent, exc>>
    /\ UNCHANGED liveIdle

\* lines 11-30: the host runs the raised event on the view that is active
\* then.  An exception of lines 20-28 is printed at line 30 and the with
\* block of line 19 rolls a started transaction back; the host refuses a
\* view range whose planes are out of order
LiveExecute ==
    /\ pc = "LiveRangeWindow"
    /\ pending
    /\ pending' = FALSE
    /\ \E view \in {[ViewType |-> "FloorPlan", GenLevel |-> 1], [ViewType |-> "Section", GenLevel |-> 0]} :
         /\ active_view' = view
         /\ IF view.ViewType # "FloorPlan"
              THEN /\ tx' = [tx EXCEPT !["t"] = "NotStarted"]
                   /\ exc' = NoException
                   /\ UNCHANGED <<sent, doc>>
              ELSE \/ /\ exc' = HostErrorIn("t.Start")
                      /\ tx' = [tx EXCEPT !["t"] = "NotStarted"]
                      /\ UNCHANGED <<sent, doc>>
                   \/ /\ sent' = [doc.range EXCEPT !.cut = handler.new_offset]
                      /\ IF ~ValidRange(sent')
                           THEN /\ exc' = HostErrorIn("SetViewRange")
                                /\ tx' = [tx EXCEPT !["t"] = "RolledBack"]
                                /\ doc' = doc
                           ELSE \/ /\ exc' = HostErrorIn("t.Commit")
                                   /\ tx' = [tx EXCEPT !["t"] = "RolledBack"]
                                   /\ doc' = doc
                                \/ /\ exc' = NoException
                                   /\ tx' = [tx EXCEPT !["t"] = "Committed"]
                                   /\ doc' = [doc EXCEPT !.range = sent']
    /\ UNCHANGED <<win, handler, events>>
    /\ UNCHANGED liveIdle

NextLive == on_slider_change \/ LiveExecute

SpecLive == InitLive /\ [][NextLive]_vars

(***************************************************************************)
(* C29: the live view-range tool                                           *)
(***************************************************************************)
\* the event raised by the last change of the slider has run on a plan view
LastChangeExecuted ==
    ~pending /\ events > 0 /\ active_view.ViewType = "FloorPlan"

\* the raised event is run
ExecuteStep == pending /\ ~pending'

C31_CutNotBelowBottom ==
    /\ win.top_thick >= 10
    /\ sent # NoRange =>
          /\ sent.bottom = 0
          /\ sent.bottom <= sent.cut
          /\ sent.cut < sent.top
          /\ sent.top <= sent.depth

====
